---- MODULE Spec2Model ----
(***************************************************************************)
(* CashyCat: a model of the budget / tracking-period calculations of the   *)
(* Dashboard, of the purchase filter of BudgetPurchases and of the submit  *)
(* handlers of the budget and purchase modals.                             *)
(*                                                                         *)
(* Numbers.  Money and percentages are decimals with two fractional        *)
(* digits; the model carries them as integers counted in hundredths        *)
(* (12.50 is 1250).  A product of two such values is therefore counted in  *)
(* ten-thousandths; the operators say which scale they return.  Binary     *)
(* floating point rounding is not modelled.                                *)
(*                                                                         *)
(* Time.  A JavaScript Date is a count of milliseconds since 1970-01-01    *)
(* UTC.  The model writes it as <<day, ms>>: the instant day * MsPerDay +  *)
(* ms with 0 <= ms < MsPerDay, because the millisecond count itself does   *)
(* not fit the integers of the model checker.  Local time is UTC plus a    *)
(* fixed offset (no daylight-saving transitions).                          *)
(***************************************************************************)
EXTENDS Integers, Sequences, FiniteSets, TLC

VARIABLES
    clock,          \* the instant `new Date()` returns, <<day, ms>> UTC
    tz,             \* the browser's offset from UTC, in minutes east
    tracking_start_day, \* the profile's tracking_start_day, handed to the calculator
    period,         \* the last result of getCurrentTrackingPeriod, or NoPeriod
    userProfile,    \* Dashboard state: the fetched users row, or Null
    budgets,        \* Dashboard state: the fetched budgets, in created_at order
    purchases,      \* Dashboard / BudgetPurchases state: the fetched purchases
    view,           \* what the last render of the Dashboard computed, or NotRendered
    searchTerm,             \* BudgetPurchases state: the search box, a text
    paymentMethodFilter,    \* BudgetPurchases state: "all" or a payment method
    dateFilter,             \* BudgetPurchases state: "all", "today", "week", "month"
    filteredPurchases,      \* BudgetPurchases state: the list that is displayed
    user,           \* the auth context's user, or Null
    db_budgets,     \* the store: the rows of table budgets, in created_at order
    db_purchases,   \* the store: the rows of table purchases
    modal,          \* the open modal: its kind, its loading flag, its error text
    request,        \* the store request a submit handler is awaiting, or Null
    calls,          \* the callbacks (onSuccess, onClose) invoked since the modal opened
    db_user,        \* the store: the signed-in user's row of table users, or Null
    dashboard,      \* the Dashboard's flags: loading, showIncomeSetup, fetching
    route,          \* AppContent: the auth context's loading flag, the path, the screen
    account         \* IncomeSetup: its profile form and its account deletion

periodVars == <<clock, tz, tracking_start_day, period>>
dashVars == <<userProfile, budgets, purchases, view>>
filterVars == <<searchTerm, paymentMethodFilter, dateFilter, filteredPurchases>>
modalVars == <<user, db_budgets, db_purchases, modal, request, calls>>
appVars == <<db_user, dashboard, route, account>>
vars == <<periodVars, dashVars, filterVars, modalVars, appVars>>

-----------------------------------------------------------------------------
(* Bounds of the model.                                                    *)

FirstYear == 2023       \* the clock starts on 1 January of this year
NumDays == 456          \* and runs over this many days (2023-01-01 .. 2024-03-31)

TZOffsets == {-480, 0, 330}     \* UTC-8, UTC, UTC+5:30

MaxBudgets == 2         \* budgets in a fetched list
MaxPurchases == 2       \* purchases in a fetched list
MaxRows == 1            \* rows the store accepts in each table
MaxHistory == 2         \* entries of the browser history below the current one

-----------------------------------------------------------------------------
(* JavaScript values: null, NaN and numbers.                               *)

Null == [t |-> "null"]
NaN == [t |-> "NaN"]
Num(x) == [t |-> "number", v |-> x]

\* ToBoolean of null, NaN or a number: the value is "truthy"
Truthy(x) == x.t = "number" /\ x.v # 0

Min(a, b) == IF a <= b THEN a ELSE b

-----------------------------------------------------------------------------
(* Texts are sequences of one-character strings.                           *)

UpperToLower ==
    [A |-> "a", C |-> "c", E |-> "e", F |-> "f", O |-> "o", R |-> "r", T |-> "t"]

\* String.prototype.toLowerCase
toLowerCase_asIs(s) == s

toLowerCase(s) ==
    [i \in 1..Len(s) |-> IF s[i] \in DOMAIN UpperToLower THEN UpperToLower[s[i]] ELSE s[i]]

\* String.prototype.trim
RECURSIVE trimStart(_)
trimStart(s) == IF s # <<>> /\ Head(s) = " " THEN trimStart(Tail(s)) ELSE s

RECURSIVE trimEnd(_)
trimEnd(s) ==
    IF s # <<>> /\ s[Len(s)] = " " THEN trimEnd(SubSeq(s, 1, Len(s) - 1)) ELSE s

trim_startOnly(s) == trimStart(s)

trim(s) == trimEnd(trimStart(s))

DigitValue ==
    [c \in {"0", "1", "2", "3", "4", "5", "6", "7", "8", "9"} |->
        CASE c = "0" -> 0 [] c = "1" -> 1 [] c = "2" -> 2 [] c = "3" -> 3 [] c = "4" -> 4
          [] c = "5" -> 5 [] c = "6" -> 6 [] c = "7" -> 7 [] c = "8" -> 8 [] c = "9" -> 9]

IsDigit(s, i) == i <= Len(s) /\ s[i] \in DOMAIN DigitValue

\* the first position from i on that holds no digit
RECURSIVE DigitsEnd(_, _)
DigitsEnd(s, i) == IF IsDigit(s, i) THEN DigitsEnd(s, i + 1) ELSE i

\* the number written by the digits at positions i .. j - 1
RECURSIVE DigitsNumber(_, _, _, _)
DigitsNumber(s, i, j, acc) ==
    IF i >= j THEN acc ELSE DigitsNumber(s, i + 1, j, acc * 10 + DigitValue[s[i]])

\* parseFloat: leading white space, an optional sign, digits, an optional fraction;
\* the longest such prefix is the number, none is NaN.  The result is counted in
\* hundredths; digits after the second fractional digit and exponents are outside
\* the texts of the model.
parseFloat(text) ==
    LET s == trimStart(text)
        signed == s # <<>> /\ Head(s) \in {"-", "+"}
        i1 == IF signed THEN 2 ELSE 1
        i2 == DigitsEnd(s, i1)
        dot == i2 <= Len(s) /\ s[i2] = "."
        i3 == IF dot THEN DigitsEnd(s, i2 + 1) ELSE i2
        whole == DigitsNumber(s, i1, i2, 0)
        tenths == IF dot /\ i3 > i2 + 1 THEN DigitValue[s[i2 + 1]] ELSE 0
        hundredths == IF dot /\ i3 > i2 + 2 THEN DigitValue[s[i2 + 2]] ELSE 0
        magnitude == whole * 100 + tenths * 10 + hundredths
    IN  IF i2 = i1 /\ (~dot \/ i3 = i2 + 1) THEN NaN
        ELSE Num(IF signed /\ Head(s) = "-" THEN 0 - magnitude ELSE magnitude)

isNaN(x) == x = NaN

\* String.prototype.includes
includes(s, sub) ==
    \E i \in 0..(Len(s) - Len(sub)) : SubSeq(s, i + 1, i + Len(sub)) = sub

-----------------------------------------------------------------------------
(* ECMAScript Date arithmetic (ECMA-262, "Date Objects"), as used by       *)
(* `new Date(...)`, getFullYear, getMonth, getDate.                        *)

MsPerDay == 24 * 60 * 60 * 1000

Years == (FirstYear - 2) .. (FirstYear + 4)

IsLeap(y) == (y % 4 = 0 /\ y % 100 # 0) \/ y % 400 = 0

DayFromYear(y) ==
    365 * (y - 1970) + ((y - 1969) \div 4) - ((y - 1901) \div 100)
        + ((y - 1601) \div 400)

\* first day-in-year of month m (0 = January), ECMA-262 MonthFromTime table
MonthStart(y, m) ==
    LET L == IF IsLeap(y) THEN 1 ELSE 0
    IN  CASE m = 0 -> 0
          [] m = 1 -> 31
          [] m = 2 -> 59 + L
          [] m = 3 -> 90 + L
          [] m = 4 -> 120 + L
          [] m = 5 -> 151 + L
          [] m = 6 -> 181 + L
          [] m = 7 -> 212 + L
          [] m = 8 -> 243 + L
          [] m = 9 -> 273 + L
          [] m = 10 -> 304 + L
          [] m = 11 -> 334 + L
          [] m = 12 -> 365 + L

\* the days the model ever decomposes into year, month and date
CalendarDays == (DayFromYear(FirstYear) - 100) .. (DayFromYear(FirstYear) + NumDays + 100)

\* ECMA-262 YearFromTime, MonthFromTime, DateFromTime, tabulated over CalendarDays
YearTable ==
    [d \in CalendarDays |->
        CHOOSE y \in Years : DayFromYear(y) <= d /\ d < DayFromYear(y + 1)]

MonthTable ==
    [d \in CalendarDays |->
        LET y == YearTable[d]
            k == d - DayFromYear(y)
        IN  CHOOSE m \in 0..11 : MonthStart(y, m) <= k /\ k < MonthStart(y, m + 1)]

YearFromDay(d) == YearTable[d]

MonthFromDay(d) == MonthTable[d]

DateFromDay(d) ==
    LET y == YearFromDay(d)
    IN  d - DayFromYear(y) - MonthStart(y, MonthFromDay(d)) + 1

\* ECMA-262 MakeDay: month and date outside their ranges roll over
MakeDay(year, month, date) ==
    LET ym == year + (month \div 12)
        mn == month % 12
    IN  DayFromYear(ym) + MonthStart(ym, mn) + date - 1

MakeTime(hour, min, sec, ms) == ((hour * 60 + min) * 60 + sec) * 1000 + ms

Norm(day, ms) == <<day + (ms \div MsPerDay), ms % MsPerDay>>

TzMs(offset) == offset * 60 * 1000

\* the local wall clock of an instant, as <<local day, ms of the local day>>
LocalTime(t, offset) == Norm(t[1], t[2] + TzMs(offset))

\* new Date(year, month, date, hours, minutes, seconds, ms): local fields -> instant
NewDate(year, month, date, hour, min, sec, ms, offset) ==
    Norm(MakeDay(year, month, date), MakeTime(hour, min, sec, ms) - TzMs(offset))

getFullYear(t, offset) == YearFromDay(LocalTime(t, offset)[1])
getMonth(t, offset) == MonthFromDay(LocalTime(t, offset)[1])
getDate(t, offset) == DateFromDay(LocalTime(t, offset)[1])

\* the instant at which the local wall clock shows localMs on local day `day`
ClockAt(day, localMs, offset) == Norm(day, localMs - TzMs(offset))

\* a <= b, a < b on instants
Leq(a, b) == a[1] < b[1] \/ (a[1] = b[1] /\ a[2] <= b[2])
Lt(a, b) == a[1] < b[1] \/ (a[1] = b[1] /\ a[2] < b[2])

-----------------------------------------------------------------------------
(* The state of a component before it is used.                             *)

NoPeriod == [called |-> FALSE]

NotRendered == [rendered |-> FALSE]

DashboardIdle ==
    /\ userProfile = Null
    /\ budgets = <<>>
    /\ purchases = <<>>
    /\ view = NotRendered

PeriodIdle ==
    /\ clock = <<DayFromYear(FirstYear), 0>>
    /\ tz = 0
    /\ tracking_start_day = 1
    /\ period = NoPeriod

FilterIdle ==
    /\ searchTerm = <<>>
    /\ paymentMethodFilter = "all"
    /\ dateFilter = "all"
    /\ filteredPurchases = <<>>

\* Dashboard: useState(true) for loading, useState(false) for showIncomeSetup
\* fetching: a fetchUserData call has not returned yet
DashboardUnmounted == [loading |-> TRUE, showIncomeSetup |-> FALSE, fetching |-> FALSE]

\* a path is the sequence of its segments: "/" is <<>>, "/budget/b1" is <<"budget", "b1">>
NoRoute ==
    [loading |-> TRUE, requested |-> <<>>, path |-> <<>>, back |-> <<>>,
     screen |-> "loading"]

\* IncomeSetup as mounted: the profile form's flags and awaited request; of the last
\* account deletion the prompt's answer, the awaited call, the calls made, their results
NoAccountFlow ==
    [loading |-> FALSE, error |-> "", success |-> "", profileRequest |-> Null,
     deleteLoading |-> FALSE, input |-> Null, step |-> "idle", done |-> <<>>,
     results |-> <<>>]

AppIdle ==
    /\ db_user = Null
    /\ dashboard = DashboardUnmounted
    /\ route = NoRoute
    /\ account = NoAccountFlow

NoModal == [kind |-> "none", loading |-> FALSE, error |-> "", budgetId |-> 0]

ModalIdle ==
    /\ user = Null
    /\ db_budgets = <<>>
    /\ db_purchases = <<>>
    /\ modal = NoModal
    /\ request = Null
    /\ calls = <<>>

-----------------------------------------------------------------------------
(* Dashboard.getCurrentTrackingPeriod                                      *)

getCurrentTrackingPeriod_swapped(trackingStartDay, now, offset) ==
    LET currentYear == getFullYear(now, offset)
        currentMonth == getMonth(now, offset)
        currentDay == getDate(now, offset)
    IN  IF currentDay > trackingStartDay
        THEN [periodStart |-> NewDate(currentYear, currentMonth, trackingStartDay,
                                      0, 0, 0, 0, offset),
              periodEnd |-> NewDate(currentYear, currentMonth + 1, trackingStartDay - 1,
                                    23, 59, 59, 999, offset)]
        ELSE [periodStart |-> NewDate(currentYear, currentMonth - 1, trackingStartDay,
                                      0, 0, 0, 0, offset),
              periodEnd |-> NewDate(currentYear, currentMonth, trackingStartDay - 1,
                                    23, 59, 59, 999, offset)]

getCurrentTrackingPeriod_endOnStartDay(trackingStartDay, now, offset) ==
    LET currentYear == getFullYear(now, offset)
        currentMonth == getMonth(now, offset)
        currentDay == getDate(now, offset)
    IN  IF currentDay >= trackingStartDay
        THEN [periodStart |-> NewDate(currentYear, currentMonth, trackingStartDay,
                                      0, 0, 0, 0, offset),
              periodEnd |-> NewDate(currentYear, currentMonth + 1, trackingStartDay,
                                    23, 59, 59, 999, offset)]
        ELSE [periodStart |-> NewDate(currentYear, currentMonth - 1, trackingStartDay,
                                      0, 0, 0, 0, offset),
              periodEnd |-> NewDate(currentYear, currentMonth, trackingStartDay,
                                    23, 59, 59, 999, offset)]

getCurrentTrackingPeriod_endWithoutMs(trackingStartDay, now, offset) ==
    LET currentYear == getFullYear(now, offset)
        currentMonth == getMonth(now, offset)
        currentDay == getDate(now, offset)
    IN  IF currentDay >= trackingStartDay
        THEN [periodStart |-> NewDate(currentYear, currentMonth, trackingStartDay,
                                      0, 0, 0, 0, offset),
              periodEnd |-> NewDate(currentYear, currentMonth + 1, trackingStartDay - 1,
                                    23, 59, 59, 0, offset)]
        ELSE [periodStart |-> NewDate(currentYear, currentMonth - 1, trackingStartDay,
                                      0, 0, 0, 0, offset),
              periodEnd |-> NewDate(currentYear, currentMonth, trackingStartDay - 1,
                                    23, 59, 59, 0, offset)]

getCurrentTrackingPeriod(trackingStartDay, now, offset) ==
    LET currentYear == getFullYear(now, offset)
        currentMonth == getMonth(now, offset)
        currentDay == getDate(now, offset)
    IN  IF currentDay >= trackingStartDay
        THEN [periodStart |-> NewDate(currentYear, currentMonth, trackingStartDay,
                                      0, 0, 0, 0, offset),
              periodEnd |-> NewDate(currentYear, currentMonth + 1, trackingStartDay - 1,
                                    23, 59, 59, 999, offset)]
        ELSE [periodStart |-> NewDate(currentYear, currentMonth - 1, trackingStartDay,
                                      0, 0, 0, 0, offset),
              periodEnd |-> NewDate(currentYear, currentMonth, trackingStartDay - 1,
                                    23, 59, 59, 999, offset)]

-----------------------------------------------------------------------------
(* Dashboard: the budget resolver and the aggregator.                      *)
(*                                                                         *)
(* monthly_income, fixed_amount and amount are counted in cents,           *)
(* percentage_amount in hundredths of a percent.  A budget ceiling is      *)
(* counted in CeilingUnit-ths of a cent, so that                           *)
(* monthly_income * percentage_amount / 100 is exact.                      *)

CeilingUnit == 100 * 100

calculateBudgetAmount_noPercentageOnly(profile, budget) ==
    IF profile = Null THEN 0
    ELSE IF Truthy(budget.fixed_amount) /\ Truthy(budget.percentage_amount)
    THEN LET percentageAmount == profile.monthly_income * budget.percentage_amount.v
         IN  Min(budget.fixed_amount.v * CeilingUnit, percentageAmount)
    ELSE IF Truthy(budget.fixed_amount)
    THEN budget.fixed_amount.v * CeilingUnit
    ELSE 0

calculateBudgetAmount_cappedByIncome(profile, budget) ==
    IF profile = Null THEN 0
    ELSE IF Truthy(budget.fixed_amount) /\ Truthy(budget.percentage_amount)
    THEN LET percentageAmount == profile.monthly_income * budget.percentage_amount.v
         IN  Min(budget.fixed_amount.v * CeilingUnit, percentageAmount)
    ELSE IF Truthy(budget.fixed_amount)
    THEN Min(budget.fixed_amount.v, profile.monthly_income) * CeilingUnit
    ELSE IF Truthy(budget.percentage_amount)
    THEN profile.monthly_income * budget.percentage_amount.v
    ELSE 0

calculateBudgetAmount(profile, budget) ==
    IF profile = Null THEN 0
    ELSE IF Truthy(budget.fixed_amount) /\ Truthy(budget.percentage_amount)
    THEN LET percentageAmount == profile.monthly_income * budget.percentage_amount.v
         IN  Min(budget.fixed_amount.v * CeilingUnit, percentageAmount)
    ELSE IF Truthy(budget.fixed_amount)
    THEN budget.fixed_amount.v * CeilingUnit
    ELSE IF Truthy(budget.percentage_amount)
    THEN profile.monthly_income * budget.percentage_amount.v
    ELSE 0

\* ps.reduce((sum, p) => sum + p.amount, 0)
RECURSIVE ReduceAmounts(_, _)
ReduceAmounts(ps, sum) ==
    IF ps = <<>> THEN sum ELSE ReduceAmounts(Tail(ps), sum + Head(ps).amount)

calculateBudgetSpent_unfiltered(ps, budgetId) == ReduceAmounts(ps, 0)

calculateBudgetSpent(ps, budgetId) ==
    ReduceAmounts(SelectSeq(ps, LAMBDA p : p.budget_id = budgetId), 0)

\* ps.forEach((purchase) => { totals[purchase.payment_method] += purchase.amount })
RECURSIVE ForEachTotal(_, _)
ForEachTotal(ps, totals) ==
    IF ps = <<>> THEN totals
    ELSE ForEachTotal(Tail(ps),
                      [totals EXCEPT ![Head(ps).payment_method] = @ + Head(ps).amount])

RECURSIVE ForEachTotal_assign(_, _)
ForEachTotal_assign(ps, totals) ==
    IF ps = <<>> THEN totals
    ELSE ForEachTotal_assign(Tail(ps),
                      [totals EXCEPT ![Head(ps).payment_method] = Head(ps).amount])

calculateTotalsByPaymentMethod_assign(ps) ==
    ForEachTotal_assign(ps, [bank |-> 0, credit |-> 0, cash |-> 0])

calculateTotalsByPaymentMethod(ps) ==
    ForEachTotal(ps, [bank |-> 0, credit |-> 0, cash |-> 0])

RECURSIVE ReduceBudgeted(_, _, _)
ReduceBudgeted(profile, bs, sum) ==
    IF bs = <<>> THEN sum
    ELSE ReduceBudgeted(profile, Tail(bs), sum + calculateBudgetAmount(profile, Head(bs)))

totalBudgeted(profile, bs) == ReduceBudgeted(profile, bs, 0)

totalSpent(ps) == ReduceAmounts(ps, 0)

\* Number.prototype.toFixed(2) of an amount counted in 1/CeilingUnit cents: the sign
\* and the cents of the magnitude, rounded to the nearest, a tie upwards
toFixed2(x) ==
    LET magnitude == IF x < 0 THEN -x ELSE x
    IN  [minus |-> x < 0, cents |-> (magnitude + CeilingUnit \div 2) \div CeilingUnit]

\* percentage = budgetAmount > 0 ? (spent / budgetAmount) * 100 : 0 is compared with
\* 80 and 100 only.  With budgetAmount > 0: percentage > 100 iff spent > budgetAmount,
\* percentage >= 100 iff spent >= budgetAmount, and percentage >= 80 iff
\* 5 * spent >= 4 * budgetAmount, i.e. spent >= budgetAmount - budgetAmount \div 5.
PercentageAbove100(budgetAmount, spent) ==
    budgetAmount > 0 /\ spent * CeilingUnit > budgetAmount

PercentageAtLeast100(budgetAmount, spent) ==
    budgetAmount > 0 /\ spent * CeilingUnit >= budgetAmount

PercentageAtLeast80(budgetAmount, spent) ==
    budgetAmount > 0 /\ spent * CeilingUnit >= budgetAmount - (budgetAmount \div 5)

getProgressColor(budgetAmount, spent) ==
    IF PercentageAtLeast100(budgetAmount, spent) THEN "bg-red-500"
    ELSE IF PercentageAtLeast80(budgetAmount, spent) THEN "bg-orange-500"
    ELSE "bg-green-500"

\* the status banner under the amounts; the three conditions exclude each other
StatusBanner(budgetAmount, spent) ==
    IF PercentageAbove100(budgetAmount, spent) THEN "Budget exceeded!"
    ELSE IF /\ PercentageAtLeast80(budgetAmount, spent)
            /\ ~PercentageAtLeast100(budgetAmount, spent)
         THEN "Getting close to limit!"
    ELSE IF /\ PercentageAtLeast100(budgetAmount, spent)
            /\ ~PercentageAbove100(budgetAmount, spent)
         THEN "Budget limit hit!"
    ELSE "none"

\* BudgetCard: its props (budgetAmount in 1/CeilingUnit cents, spent in cents), the
\* remaining amount, and the text and the colour class it is shown with
BudgetCard_clamped(budgetAmount, spent) ==
    LET difference == budgetAmount - spent * CeilingUnit
        remaining == IF difference < 0 THEN 0 ELSE difference
    IN  [budgetAmount |-> budgetAmount,
         spent |-> spent,
         remaining |-> remaining,
         remainingText |-> toFixed2(remaining),
         remainingClass |-> IF remaining >= 0 THEN "text-green-600" ELSE "text-red-600",
         progressColor |-> getProgressColor(budgetAmount, spent),
         status |-> StatusBanner(budgetAmount, spent)]

BudgetCard(budgetAmount, spent) ==
    LET remaining == budgetAmount - spent * CeilingUnit
    IN  [budgetAmount |-> budgetAmount,
         spent |-> spent,
         remaining |-> remaining,
         remainingText |-> toFixed2(remaining),
         remainingClass |-> IF remaining >= 0 THEN "text-green-600" ELSE "text-red-600",
         progressColor |-> getProgressColor(budgetAmount, spent),
         status |-> StatusBanner(budgetAmount, spent)]

\* one render of the Dashboard: the derived values and the props of each BudgetCard
Render ==
    /\ view' = [rendered |-> TRUE,
                totalBudgeted |-> totalBudgeted(userProfile, budgets),
                totalSpent |-> totalSpent(purchases),
                paymentTotals |-> calculateTotalsByPaymentMethod(purchases),
                cards |-> [i \in 1..Len(budgets) |->
                             BudgetCard(calculateBudgetAmount(userProfile, budgets[i]),
                                        calculateBudgetSpent(purchases, budgets[i].id))]]
    /\ UNCHANGED <<userProfile, budgets, purchases, periodVars, filterVars, modalVars, appVars>>

(* The snapshots the Dashboard is rendered on. *)

PaymentMethods == {"bank", "credit", "cash"}

Profiles == {Null, [monthly_income |-> 0], [monthly_income |-> 300000]}

FixedAmounts == {Null, Num(0), Num(40000)}
PercentageAmounts == {Null, Num(0), Num(1000), Num(2000)}
PurchaseAmounts == {12000, 31000}

\* the sequences over S of length at most n
SeqsUpTo(S, n) == UNION {[1..k -> S] : k \in 0..n}

\* budget lists: the i-th fetched budget has id i
BudgetLists(F, P) ==
    {[i \in 1..Len(fp) |-> [id |-> i, fixed_amount |-> fp[i][1],
                             percentage_amount |-> fp[i][2]]] :
        fp \in SeqsUpTo(F \X P, MaxBudgets)}

\* purchase lists; budget_id MaxBudgets + 1 belongs to no fetched budget
PurchaseLists ==
    SeqsUpTo([budget_id : 1..(MaxBudgets + 1), amount : PurchaseAmounts,
              payment_method : PaymentMethods], MaxPurchases)

\* any profile and any budgets, no purchases yet
ResolverSnapshot ==
    /\ userProfile \in Profiles
    /\ budgets \in BudgetLists(FixedAmounts, PercentageAmounts)
    /\ purchases = <<>>

\* fixed budgets and any purchases
AggregatorSnapshot ==
    /\ userProfile = [monthly_income |-> 300000]
    /\ budgets \in BudgetLists({Num(40000)}, {Null})
    /\ purchases \in PurchaseLists

\* budgets whose ceiling is 0 (each amount null or zero), and cash purchases on them
ZeroCeilingSnapshot ==
    /\ userProfile = [monthly_income |-> 300000]
    /\ budgets \in BudgetLists({Null, Num(0)}, {Null, Num(0)})
    /\ purchases \in SeqsUpTo([budget_id : 1..MaxBudgets, amount : {12000},
                               payment_method : {"cash"}], MaxPurchases)

\* income 3000; A fixed 500, B 20 percent, C fixed 400 and 10 percent;
\* purchases A: 120 bank, B: 50 credit, C: 310 cash
ScenarioBudgets ==
    << [id |-> 1, fixed_amount |-> Num(50000), percentage_amount |-> Null],
       [id |-> 2, fixed_amount |-> Null, percentage_amount |-> Num(2000)],
       [id |-> 3, fixed_amount |-> Num(40000), percentage_amount |-> Num(1000)] >>

ScenarioPurchases ==
    << [budget_id |-> 1, amount |-> 12000, payment_method |-> "bank"],
       [budget_id |-> 2, amount |-> 5000, payment_method |-> "credit"],
       [budget_id |-> 3, amount |-> 31000, payment_method |-> "cash"] >>

ScenarioSnapshot ==
    /\ userProfile = [monthly_income |-> 300000]
    /\ budgets = ScenarioBudgets
    /\ purchases = ScenarioPurchases

DashboardInit ==
    /\ ResolverSnapshot \/ AggregatorSnapshot \/ ZeroCeilingSnapshot \/ ScenarioSnapshot
    /\ view = NotRendered
    /\ PeriodIdle
    /\ FilterIdle
    /\ ModalIdle
    /\ AppIdle

DashboardNext == Render

SpecDashboard == DashboardInit /\ [][DashboardNext]_vars

-----------------------------------------------------------------------------
(* BudgetPurchases: the purchase filter.                                   *)
(*                                                                         *)
(* purchase_date is a timestamptz column; the client receives it as an ISO *)
(* 8601 text, modelled as its UTC fields [year, month (1..12), date, ms].  *)

\* new Date(isoText)
ParseIso(iso) == Norm(MakeDay(iso.year, iso.month - 1, iso.date), iso.ms)

\* Date.prototype.toISOString
toISOString(t) ==
    [year |-> YearFromDay(t[1]), month |-> MonthFromDay(t[1]) + 1,
     date |-> DateFromDay(t[1]), ms |-> t[2]]

\* now.getTime() - days * 24 * 60 * 60 * 1000
MinusDays(now, days) == <<now[1] - days, now[2]>>

\* filterDate of the date filter (the switch of filterPurchases)
filterDate_utcDay(filter, now, offset) ==
    CASE filter = "today" -> <<now[1], 0>>
      [] filter = "week" -> MinusDays(now, 7)
      [] filter = "month" -> MinusDays(now, 30)

filterDate(filter, now, offset) ==
    CASE filter = "today" ->
            NewDate(getFullYear(now, offset), getMonth(now, offset), getDate(now, offset),
                    0, 0, 0, 0, offset)
      [] filter = "week" -> MinusDays(now, 7)
      [] filter = "month" -> MinusDays(now, 30)

filterPurchases_methodAlone(ps, term, method, filter, now, offset) ==
    LET bySearch ==
            IF term # <<>>
            THEN SelectSeq(ps, LAMBDA purchase :
                     includes(toLowerCase(purchase.description), toLowerCase(term)))
            ELSE ps
        byMethod ==
            IF method # "all"
            THEN SelectSeq(ps, LAMBDA purchase : purchase.payment_method = method)
            ELSE bySearch
    IN  IF filter # "all"
        THEN SelectSeq(byMethod, LAMBDA purchase :
                 Leq(filterDate(filter, now, offset), ParseIso(purchase.purchase_date)))
        ELSE byMethod

Reversed(ps) == [i \in 1..Len(ps) |-> ps[Len(ps) + 1 - i]]

filterPurchases_oldestFirst(ps, term, method, filter, now, offset) ==
    LET bySearch ==
            IF term # <<>>
            THEN SelectSeq(ps, LAMBDA purchase :
                     includes(toLowerCase(purchase.description), toLowerCase(term)))
            ELSE ps
        byMethod ==
            IF method # "all"
            THEN SelectSeq(bySearch, LAMBDA purchase : purchase.payment_method = method)
            ELSE bySearch
    IN  IF filter # "all"
        THEN Reversed(SelectSeq(byMethod, LAMBDA purchase :
                 Leq(filterDate(filter, now, offset), ParseIso(purchase.purchase_date))))
        ELSE Reversed(byMethod)

filterPurchases_noAllGuard(ps, term, method, filter, now, offset) ==
    LET bySearch ==
            IF term # <<>>
            THEN SelectSeq(ps, LAMBDA purchase :
                     includes(toLowerCase(purchase.description), toLowerCase(term)))
            ELSE ps
        byMethod ==
            IF method # "all"
            THEN SelectSeq(bySearch, LAMBDA purchase : purchase.payment_method = method)
            ELSE bySearch
    IN  SelectSeq(byMethod, LAMBDA purchase :
            Leq(IF filter # "all" THEN filterDate(filter, now, offset) ELSE now,
                ParseIso(purchase.purchase_date)))

\* the list filterPurchases hands to setFilteredPurchases
filterPurchases(ps, term, method, filter, now, offset) ==
    LET bySearch ==
            IF term # <<>>
            THEN SelectSeq(ps, LAMBDA purchase :
                     includes(toLowerCase(purchase.description), toLowerCase(term)))
            ELSE ps
        byMethod ==
            IF method # "all"
            THEN SelectSeq(bySearch, LAMBDA purchase : purchase.payment_method = method)
            ELSE bySearch
    IN  IF filter # "all"
        THEN SelectSeq(byMethod, LAMBDA purchase :
                 Leq(filterDate(filter, now, offset), ParseIso(purchase.purchase_date)))
        ELSE byMethod

\* the search box changes; the effect on [purchases, searchTerm, ...] filters again
setSearchTerm(term) ==
    /\ term # searchTerm
    /\ searchTerm' = term
    /\ filteredPurchases' =
          filterPurchases(purchases, term, paymentMethodFilter, dateFilter, clock, tz)
    /\ UNCHANGED <<paymentMethodFilter, dateFilter, periodVars, dashVars, modalVars, appVars>>

setPaymentMethodFilter(method) ==
    /\ method # paymentMethodFilter
    /\ paymentMethodFilter' = method
    /\ filteredPurchases' =
          filterPurchases(purchases, searchTerm, method, dateFilter, clock, tz)
    /\ UNCHANGED <<searchTerm, dateFilter, periodVars, dashVars, modalVars, appVars>>

setDateFilter(filter) ==
    /\ filter # dateFilter
    /\ dateFilter' = filter
    /\ filteredPurchases' =
          filterPurchases(purchases, searchTerm, paymentMethodFilter, filter, clock, tz)
    /\ UNCHANGED <<searchTerm, paymentMethodFilter, periodVars, dashVars, modalVars, appVars>>

(* The purchase lists the filter runs on. *)

Coffee == <<"C", "o", "f", "f", "e", "e">>
Tea == <<"t", "e", "a">>

SearchTerms == {<<>>, <<"C", "O", "F">>, <<"E", "a">>}
MethodFilters == {"all"} \cup PaymentMethods
DateFilters == {"all", "today", "week", "month"}

\* 15:30 on the 69th day of FirstYear, local time
FilterClock(offset) ==
    ClockAt(DayFromYear(FirstYear) + 68, MakeTime(15, 30, 0, 0), offset)

MinusMs(t, ms) == Norm(t[1], t[2] - ms)

\* any description and payment method, dated well inside or well outside every window
MixedKinds(now) ==
    [description : {Coffee, Tea}, payment_method : PaymentMethods, amount : {12000},
     purchase_date : {toISOString(MinusDays(now, -1)), toISOString(MinusDays(now, 31))}]

\* dated on and one millisecond before each window's start, and at today's midnight UTC
BoundaryKinds(now, offset) ==
    LET today == filterDate("today", now, offset)
    IN  [description : {Coffee}, payment_method : {"bank"}, amount : {12000},
         purchase_date :
            {toISOString(d) : d \in
                {today, MinusMs(today, 1),
                 MinusDays(now, 7), MinusMs(MinusDays(now, 7), 1),
                 MinusDays(now, 30), MinusMs(MinusDays(now, 30), 1),
                 <<LocalTime(now, offset)[1], 0>>}}]

\* the fetch orders by purchase_date, descending
NewestFirst(ps) ==
    \A i, j \in 1..Len(ps) :
       i < j => Leq(ParseIso(ps[j].purchase_date), ParseIso(ps[i].purchase_date))

\* the i-th fetched purchase has id i
WithIds(ps) ==
    [i \in 1..Len(ps) |->
        [id |-> i, description |-> ps[i].description,
         payment_method |-> ps[i].payment_method, amount |-> ps[i].amount,
         purchase_date |-> ps[i].purchase_date]]

\* BudgetPurchases after its mount and its fetch: the criteria at their defaults
FilterInit ==
    /\ tz \in TZOffsets
    /\ clock = FilterClock(tz)
    /\ tracking_start_day = 1
    /\ period = NoPeriod
    /\ userProfile = Null
    /\ budgets = <<>>
    /\ view = NotRendered
    /\ purchases \in
          {WithIds(ps) : ps \in
              {qs \in SeqsUpTo(MixedKinds(clock), MaxPurchases)
                        \cup SeqsUpTo(BoundaryKinds(clock, tz), MaxPurchases) :
                  NewestFirst(qs)}}
    /\ searchTerm = <<>>
    /\ paymentMethodFilter = "all"
    /\ dateFilter = "all"
    /\ filteredPurchases = filterPurchases(purchases, <<>>, "all", "all", clock, tz)
    /\ ModalIdle
    /\ AppIdle

FilterNext ==
    \/ \E term \in SearchTerms : setSearchTerm(term)
    \/ \E method \in MethodFilters : setPaymentMethodFilter(method)
    \/ \E filter \in DateFilters : setDateFilter(filter)

SpecFilter == FilterInit /\ [][FilterNext]_vars

-----------------------------------------------------------------------------
(* CreateBudgetModal, EditBudgetModal, AddPurchaseModal: the submit        *)
(* handlers and the store they write to.                                   *)
(*                                                                         *)
(* A submit handler runs in two steps: up to its `await` (validation, and  *)
(* the request it sends), and from the store's answer on.  What a handler  *)
(* does up to its await is an outcome: the error text it sets and the      *)
(* request it sends (Null when it returns or throws before sending).       *)

\* loading: the flag after the finally block (or the setEditLoading(false) before the
\* return), or while the handler awaits its request
Rejected(message) == [error |-> message, request |-> Null, loading |-> FALSE]
Sent(req) == [error |-> "", request |-> req, loading |-> TRUE]

\* CreateBudgetModal.handleSubmit, from setLoading(true) to the insert
CreateBudgetModal_handleSubmit_noReturn(form) ==
    IF trim(form.name) = <<>> THEN Rejected("Please enter a budget name")
    ELSE LET fixed == parseFloat(form.fixedAmount)
             percentage == parseFloat(form.percentageAmount)
             fixedBad == isNaN(fixed) \/ fixed.v <= 0
             percentageBad == isNaN(percentage) \/ percentage.v <= 0 \/ percentage.v > 10000
             row == [name |-> trim(form.name),
                     fixed_amount |-> IF form.budgetType = "percentage" THEN Null ELSE fixed,
                     percentage_amount |-> IF form.budgetType = "fixed" THEN Null
                                           ELSE percentage]
             message ==
                 IF form.budgetType # "fixed" /\ percentageBad
                 THEN "Please enter a percentage between 1 and 100"
                 ELSE IF form.budgetType # "percentage" /\ fixedBad
                 THEN "Please enter a valid fixed amount"
                 ELSE ""
         IN  [error |-> message, request |-> [op |-> "insert_budget", row |-> row]]

CreateBudgetModal_handleSubmit(form) ==
    IF trim(form.name) = <<>> THEN Rejected("Please enter a budget name")
    ELSE LET base == [name |-> trim(form.name), fixed_amount |-> Null,
                      percentage_amount |-> Null]
         IN  CASE form.budgetType = "fixed" ->
                    LET amount == parseFloat(form.fixedAmount)
                    IN  IF isNaN(amount) \/ amount.v <= 0
                        THEN Rejected("Please enter a valid fixed amount")
                        ELSE Sent([op |-> "insert_budget",
                                   row |-> [base EXCEPT !.fixed_amount = amount]])
                [] form.budgetType = "percentage" ->
                    LET percentage == parseFloat(form.percentageAmount)
                    IN  IF isNaN(percentage) \/ percentage.v <= 0 \/ percentage.v > 10000
                        THEN Rejected("Please enter a percentage between 1 and 100")
                        ELSE Sent([op |-> "insert_budget",
                                   row |-> [base EXCEPT !.percentage_amount = percentage]])
                [] form.budgetType = "hybrid" ->
                    LET fixed == parseFloat(form.fixedAmount)
                        percentage == parseFloat(form.percentageAmount)
                    IN  IF isNaN(fixed) \/ fixed.v <= 0
                        THEN Rejected("Please enter a valid fixed amount")
                        ELSE IF isNaN(percentage) \/ percentage.v <= 0
                                  \/ percentage.v > 10000
                        THEN Rejected("Please enter a percentage between 1 and 100")
                        ELSE Sent([op |-> "insert_budget",
                                   row |-> [base EXCEPT !.fixed_amount = fixed,
                                                        !.percentage_amount = percentage]])

\* EditBudgetModal.handleEditSubmit, from setEditLoading(true) to the update
handleEditSubmit_positiveOnly(budgetId, form) ==
    IF trim(form.name) = <<>> THEN Rejected("Please enter a budget name")
    ELSE LET updateData ==
                 [name |-> trim(form.name),
                  fixed_amount |-> IF form.fixedAmount # <<>>
                                   THEN parseFloat(form.fixedAmount) ELSE Null,
                  percentage_amount |-> IF form.percentageAmount # <<>>
                                        THEN parseFloat(form.percentageAmount) ELSE Null]
         IN  IF updateData.fixed_amount # Null
                  /\ (isNaN(updateData.fixed_amount) \/ updateData.fixed_amount.v <= 0)
             THEN Rejected("Fixed amount must be a positive number")
             ELSE IF updateData.percentage_amount # Null
                       /\ (isNaN(updateData.percentage_amount)
                             \/ updateData.percentage_amount.v < 0
                             \/ updateData.percentage_amount.v > 10000)
             THEN Rejected("Percentage must be between 0 and 100")
             ELSE Sent([op |-> "update_budget", id |-> budgetId, row |-> updateData])

handleEditSubmit_strictPercentage(budgetId, form) ==
    IF trim(form.name) = <<>> THEN Rejected("Please enter a budget name")
    ELSE LET updateData ==
                 [name |-> trim(form.name),
                  fixed_amount |-> IF form.fixedAmount # <<>>
                                   THEN parseFloat(form.fixedAmount) ELSE Null,
                  percentage_amount |-> IF form.percentageAmount # <<>>
                                        THEN parseFloat(form.percentageAmount) ELSE Null]
         IN  IF updateData.fixed_amount # Null
                  /\ (isNaN(updateData.fixed_amount) \/ updateData.fixed_amount.v < 0)
             THEN Rejected("Fixed amount must be a positive number")
             ELSE IF updateData.percentage_amount # Null
                       /\ (isNaN(updateData.percentage_amount)
                             \/ updateData.percentage_amount.v <= 0
                             \/ updateData.percentage_amount.v > 10000)
             THEN Rejected("Percentage must be between 0 and 100")
             ELSE Sent([op |-> "update_budget", id |-> budgetId, row |-> updateData])

handleEditSubmit(budgetId, form) ==
    IF trim(form.name) = <<>> THEN Rejected("Please enter a budget name")
    ELSE LET updateData ==
                 [name |-> trim(form.name),
                  fixed_amount |-> IF form.fixedAmount # <<>>
                                   THEN parseFloat(form.fixedAmount) ELSE Null,
                  percentage_amount |-> IF form.percentageAmount # <<>>
                                        THEN parseFloat(form.percentageAmount) ELSE Null]
         IN  IF updateData.fixed_amount # Null
                  /\ (isNaN(updateData.fixed_amount) \/ updateData.fixed_amount.v < 0)
             THEN Rejected("Fixed amount must be a positive number")
             ELSE IF updateData.percentage_amount # Null
                       /\ (isNaN(updateData.percentage_amount)
                             \/ updateData.percentage_amount.v < 0
                             \/ updateData.percentage_amount.v > 10000)
             THEN Rejected("Percentage must be between 0 and 100")
             ELSE Sent([op |-> "update_budget", id |-> budgetId, row |-> updateData])

\* the text of a date input: "" or "YYYY-MM-DD", the latter as [year, month, date]
NoDate == [empty |-> TRUE]

\* AddPurchaseModal.handleSubmit, from setLoading(true) to the insert.  With an empty
\* purchaseDate, new Date("T00:00:00.000Z") is an invalid date and toISOString throws.
AddPurchaseModal_handleSubmit_nonNegative(form) ==
    LET purchaseAmount == parseFloat(form.amount)
    IN  IF isNaN(purchaseAmount) \/ purchaseAmount.v < 0
        THEN Rejected("Please enter a valid amount")
        ELSE IF form.purchaseDate = NoDate
        THEN Rejected("An unexpected error occurred")
        ELSE LET dateOnly == ParseIso([year |-> form.purchaseDate.year,
                                       month |-> form.purchaseDate.month,
                                       date |-> form.purchaseDate.date, ms |-> 0])
             IN  Sent([op |-> "insert_purchase",
                       row |-> [budget_id |-> form.budgetId,
                                amount |-> purchaseAmount.v,
                                description |-> form.description,
                                payment_method |-> form.paymentMethod,
                                purchase_date |-> toISOString(dateOnly)]])

AddPurchaseModal_handleSubmit(form) ==
    LET purchaseAmount == parseFloat(form.amount)
    IN  IF isNaN(purchaseAmount) \/ purchaseAmount.v <= 0
        THEN Rejected("Please enter a valid amount")
        ELSE IF form.purchaseDate = NoDate
        THEN Rejected("An unexpected error occurred")
        ELSE LET dateOnly == ParseIso([year |-> form.purchaseDate.year,
                                       month |-> form.purchaseDate.month,
                                       date |-> form.purchaseDate.date, ms |-> 0])
             IN  Sent([op |-> "insert_purchase",
                       row |-> [budget_id |-> form.budgetId,
                                amount |-> purchaseAmount.v,
                                description |-> form.description,
                                payment_method |-> form.paymentMethod,
                                purchase_date |-> toISOString(dateOnly)]])

(* The texts a user types. *)

Rent == <<"R", "e", "n", "t">>

NameTexts == {<<>>, <<" ">>, <<" ">> \o Rent \o <<" ">>}
AmountTexts == {<<>>, <<"a", "b", "c">>, <<"0">>, <<"-", "5">>, <<"4", "0", "0">>}
PercentTexts == {<<>>, <<"a", "b", "c">>, <<"0">>, <<"-", "5">>, <<"1", "0", "0">>,
                 <<"1", "0", "1">>}
PurchaseAmountTexts == {<<>>, <<"a", "b", "c">>, <<"0">>, <<"-", "5">>,
                        <<" ", "1", "2", ".", "5">>}

\* the amount field that the chosen budget type hides is left empty
CreateForms ==
    [name : NameTexts, budgetType : {"fixed"}, fixedAmount : AmountTexts,
     percentageAmount : {<<>>}]
    \cup [name : NameTexts, budgetType : {"percentage"}, fixedAmount : {<<>>},
          percentageAmount : PercentTexts]
    \cup [name : NameTexts, budgetType : {"hybrid"}, fixedAmount : AmountTexts,
          percentageAmount : PercentTexts]

EditForms == [name : NameTexts, fixedAmount : AmountTexts, percentageAmount : PercentTexts]

\* getCurrentLocalDate(): the default of the date input
getCurrentLocalDate(now, offset) ==
    [year |-> getFullYear(now, offset), month |-> getMonth(now, offset) + 1,
     date |-> getDate(now, offset)]

PurchaseForms ==
    [budgetId : {db_budgets[i].id : i \in 1..Len(db_budgets)},
     amount : PurchaseAmountTexts, description : {<<>>, Coffee},
     paymentMethod : {"bank"},
     purchaseDate : {NoDate, getCurrentLocalDate(clock, tz)}]

(* The modals. *)

Unchanged_others == UNCHANGED <<periodVars, dashVars, filterVars, appVars>>

\* Dashboard: setShowCreateBudget(true), setShowAddPurchase(true); a parent mounts
\* EditBudgetModal on one of its budgets
OpenModal ==
    /\ modal.kind = "none"
    /\ request = Null
    /\ \/ modal' = [NoModal EXCEPT !.kind = "create"]
       \/ modal' = [NoModal EXCEPT !.kind = "add"]
       \/ \E i \in 1..Len(db_budgets) :
             modal' = [NoModal EXCEPT !.kind = "edit", !.budgetId = db_budgets[i].id]
    /\ calls' = <<>>
    /\ UNCHANGED <<user, db_budgets, db_purchases, request>>
    /\ Unchanged_others

\* the close button, Cancel or the backdrop: onClose()
CloseModal ==
    /\ modal.kind # "none"
    /\ modal' = NoModal
    /\ calls' = Append(calls, "onClose")
    /\ UNCHANGED <<user, db_budgets, db_purchases, request>>
    /\ Unchanged_others

\* the auth context loses its user while a modal is still mounted
SignedOut ==
    /\ user # Null
    /\ modal.kind # "none"
    /\ request = Null
    /\ user' = Null
    /\ UNCHANGED <<db_budgets, db_purchases, modal, request, calls>>
    /\ Unchanged_others

\* what a handler has done when it reaches its await, returns or throws
Handled(outcome) ==
    /\ modal' = [modal EXCEPT !.error = outcome.error, !.loading = outcome.loading]
    /\ request' = outcome.request
    /\ UNCHANGED <<user, db_budgets, db_purchases, calls>>
    /\ Unchanged_others

SubmitCreateBudget ==
    /\ modal.kind = "create"
    /\ ~modal.loading
    /\ \/ user = Null /\ UNCHANGED vars
       \/ user # Null /\ \E form \in CreateForms :
                             Handled(CreateBudgetModal_handleSubmit(form))

SubmitEditBudget ==
    /\ modal.kind = "edit"
    /\ ~modal.loading
    /\ \E form \in EditForms : Handled(handleEditSubmit(modal.budgetId, form))

\* with no budgets the modal shows "No budgets found" and no form
SubmitAddPurchase ==
    /\ modal.kind = "add"
    /\ ~modal.loading
    /\ db_budgets # <<>>
    /\ \/ user = Null /\ UNCHANGED vars
       \/ user # Null /\ \E form \in PurchaseForms :
                             Handled(AddPurchaseModal_handleSubmit(form))

\* the store carries the request out
Applied(req) ==
    CASE req.op = "insert_budget" ->
            /\ Len(db_budgets) < MaxRows
            /\ db_budgets' =
                  Append(db_budgets,
                         [id |-> Len(db_budgets) + 1, name |-> req.row.name,
                          fixed_amount |-> req.row.fixed_amount,
                          percentage_amount |-> req.row.percentage_amount])
            /\ UNCHANGED db_purchases
      [] req.op = "update_budget" ->
            /\ db_budgets' =
                  [i \in 1..Len(db_budgets) |->
                      IF db_budgets[i].id = req.id
                      THEN [id |-> req.id, name |-> req.row.name,
                            fixed_amount |-> req.row.fixed_amount,
                            percentage_amount |-> req.row.percentage_amount]
                      ELSE db_budgets[i]]
            /\ UNCHANGED db_purchases
      [] req.op = "insert_purchase" ->
            /\ Len(db_purchases) < MaxRows
            /\ db_purchases' = Append(db_purchases, req.row)
            /\ UNCHANGED db_budgets

\* the error text of the handler's catch block
CatchMessage(kind) ==
    IF kind = "edit" THEN "An error occurred" ELSE "An unexpected error occurred"

\* the awaited request resolves without error: onSuccess(); onClose(); the parent
\* unmounts the modal
StoreSucceeds ==
    /\ request # Null
    /\ Applied(request)
    /\ calls' = calls \o <<"onSuccess", "onClose">>
    /\ modal' = NoModal
    /\ request' = Null
    /\ UNCHANGED user
    /\ Unchanged_others

StoreFails_noFinally ==
    /\ request # Null
    /\ \E message \in {"store error", CatchMessage(modal.kind)} :
          modal' = IF modal.kind = "none" THEN modal
                   ELSE [modal EXCEPT !.error = message]
    /\ request' = Null
    /\ UNCHANGED <<user, db_budgets, db_purchases, calls>>
    /\ Unchanged_others

StoreFails_callsBack ==
    /\ request # Null
    /\ calls' = calls \o <<"onSuccess", "onClose">>
    /\ modal' = NoModal
    /\ request' = Null
    /\ UNCHANGED <<user, db_budgets, db_purchases>>
    /\ Unchanged_others

\* the request resolves with { error } or rejects: the row is not written, the
\* handler shows the message (on a modal that is still mounted)
StoreFails ==
    /\ request # Null
    /\ \E message \in {"store error", CatchMessage(modal.kind)} :
          modal' = IF modal.kind = "none" THEN modal
                   ELSE [modal EXCEPT !.error = message, !.loading = FALSE]
    /\ request' = Null
    /\ UNCHANGED <<user, db_budgets, db_purchases, calls>>
    /\ Unchanged_others

ModalInit ==
    /\ user = [id |-> "u1"]
    /\ db_budgets = <<>>
    /\ db_purchases = <<>>
    /\ modal = NoModal
    /\ request = Null
    /\ calls = <<>>
    /\ PeriodIdle
    /\ DashboardIdle
    /\ FilterIdle
    /\ AppIdle

ModalNext ==
    \/ OpenModal
    \/ CloseModal
    \/ SignedOut
    \/ SubmitCreateBudget
    \/ SubmitEditBudget
    \/ SubmitAddPurchase
    \/ StoreSucceeds
    \/ StoreFails

SpecModals == ModalInit /\ [][ModalNext]_vars

\* an awaited request settles: the store answers, or the client rejects the promise
SpecModalsLive ==
    ModalInit /\ [][ModalNext]_vars /\ WF_vars(StoreSucceeds \/ StoreFails)

-----------------------------------------------------------------------------
(* The tracking-period calculator under a running clock.                   *)

TrackingStartDays == 1..31

\* the wall-clock times of day the clock is observed at
LocalSamples == {0, 12 * 60 * 60 * 1000, MsPerDay - 1}

FirstDay == DayFromYear(FirstYear)

PeriodInit ==
    /\ tz \in TZOffsets
    /\ tracking_start_day \in TrackingStartDays
    /\ clock \in {ClockAt(FirstDay, s, tz) : s \in LocalSamples}
    /\ period = NoPeriod
    /\ DashboardIdle
    /\ FilterIdle
    /\ ModalIdle
    /\ AppIdle

\* time passes: the next observed time of the same local day, or the next day
AdvanceClock ==
    /\ LET here == LocalTime(clock, tz)
       IN  \E s \in LocalSamples :
              \/ /\ s > here[2]
                 /\ clock' = ClockAt(here[1], s, tz)
              \/ /\ here[1] + 1 < FirstDay + NumDays
                 /\ clock' = ClockAt(here[1] + 1, s, tz)
    /\ period' = NoPeriod
    /\ UNCHANGED <<tz, tracking_start_day, dashVars, filterVars, modalVars, appVars>>

\* a render or a fetch calls getCurrentTrackingPeriod(trackingStartDay)
CallGetCurrentTrackingPeriod ==
    /\ period' = [called |-> TRUE,
                  now |-> clock,
                  periodStart |->
                      getCurrentTrackingPeriod(tracking_start_day, clock, tz).periodStart,
                  periodEnd |->
                      getCurrentTrackingPeriod(tracking_start_day, clock, tz).periodEnd]
    /\ UNCHANGED <<clock, tz, tracking_start_day, dashVars, filterVars, modalVars, appVars>>

PeriodNext == AdvanceClock \/ CallGetCurrentTrackingPeriod

SpecPeriod == PeriodInit /\ [][PeriodNext]_vars

-----------------------------------------------------------------------------
(* Properties of the tracking-period calculator (SpecPeriod).              *)

\* the local calendar fields of an instant
Fields(t, offset) ==
    [year |-> getFullYear(t, offset), month |-> getMonth(t, offset),
     date |-> getDate(t, offset), ms |-> LocalTime(t, offset)[2]]

\* the length of a calendar month, from the calendar rather than from MonthStart
DaysInMonth(y, m) ==
    CASE m \in {0, 2, 4, 6, 7, 9, 11} -> 31
      [] m \in {3, 5, 8, 10} -> 30
      [] m = 1 -> IF IsLeap(y) THEN 29 ELSE 28

NextMonth(ym) == IF ym[2] = 11 THEN <<ym[1] + 1, 0>> ELSE <<ym[1], ym[2] + 1>>
PrevMonth(ym) == IF ym[2] = 0 THEN <<ym[1] - 1, 11>> ELSE <<ym[1], ym[2] - 1>>

\* C2: for every trackingStartDay in 1..28 and every instant now, the period
\* getCurrentTrackingPeriod returns satisfies periodStart <= now <= periodEnd.
C2_PeriodContainsNow ==
    (period.called /\ tracking_start_day \in 1..28)
        => /\ Leq(period.periodStart, period.now)
           /\ Leq(period.now, period.periodEnd)

\* the calculator ran on 29 February of a leap year, at the last millisecond of
\* the day, with trackingStartDay = 28
C2_Witness ==
    /\ period.called
    /\ tracking_start_day = 28
    /\ Fields(period.now, tz).month = 1
    /\ Fields(period.now, tz).date = 29
    /\ Fields(period.now, tz).ms = MsPerDay - 1
    /\ Leq(period.now, period.periodEnd)

\* C3: the two-branch rule.  When the day of the month of now is >= trackingStartDay
\* the period runs from trackingStartDay of the current month at 00:00:00.000 to day
\* trackingStartDay - 1 of the next month at 23:59:59.999; otherwise from
\* trackingStartDay of the previous month to day trackingStartDay - 1 of the current
\* month.  With trackingStartDay = 1 the end is the last day of the start month;
\* December and January wrap the year.  (Stated for the days the calendar has: a
\* day 29..31 of a shorter month names no date.)
C3_TwoBranchRule ==
    period.called =>
        LET now == Fields(period.now, tz)
            cur == <<now.year, now.month>>
            startMonth == IF now.date >= tracking_start_day THEN cur ELSE PrevMonth(cur)
            endMonth == IF tracking_start_day = 1 THEN startMonth
                        ELSE NextMonth(startMonth)
            endDate == IF tracking_start_day = 1
                       THEN DaysInMonth(startMonth[1], startMonth[2])
                       ELSE tracking_start_day - 1
        IN  (/\ tracking_start_day <= DaysInMonth(startMonth[1], startMonth[2])
             /\ endDate <= DaysInMonth(endMonth[1], endMonth[2]))
            => /\ Fields(period.periodStart, tz) =
                     [year |-> startMonth[1], month |-> startMonth[2],
                      date |-> tracking_start_day, ms |-> 0]
               /\ Fields(period.periodEnd, tz) =
                     [year |-> endMonth[1], month |-> endMonth[2],
                      date |-> endDate, ms |-> MsPerDay - 1]

\* trackingStartDay = 15 and now = 2024-03-10: the period is
\* [2024-02-15 00:00:00.000, 2024-03-14 23:59:59.999]
C3_Witness ==
    /\ period.called
    /\ tracking_start_day = 15
    /\ Fields(period.now, tz).year = 2024
    /\ Fields(period.now, tz).month = 2
    /\ Fields(period.now, tz).date = 10
    /\ Fields(period.periodStart, tz) = [year |-> 2024, month |-> 1, date |-> 15, ms |-> 0]
    /\ Fields(period.periodEnd, tz) =
          [year |-> 2024, month |-> 2, date |-> 14, ms |-> MsPerDay - 1]

-----------------------------------------------------------------------------
(* Properties of the Dashboard's resolver and aggregator (SpecDashboard).  *)

\* the sum of the amounts of the purchases at the positions in I
RECURSIVE SumAt(_, _)
SumAt(ps, I) ==
    IF I = {} THEN 0
    ELSE LET k == CHOOSE k \in I : TRUE
         IN  ps[k].amount + SumAt(ps, I \ {k})

BudgetIds == {budgets[i].id : i \in 1..Len(budgets)}

\* C1: for every budget whose fixed_amount and percentage_amount are both set (not
\* null), zero included, calculateBudgetAmount returns exactly
\* min(fixed_amount, monthly_income * percentage_amount / 100).
C1_HybridIsMin ==
    (view.rendered /\ userProfile # Null) =>
        \A i \in 1..Len(budgets) :
            (budgets[i].fixed_amount # Null /\ budgets[i].percentage_amount # Null)
                => view.cards[i].budgetAmount =
                       Min(budgets[i].fixed_amount.v * CeilingUnit,
                           userProfile.monthly_income * budgets[i].percentage_amount.v)

\* C4: with a loaded profile, calculateBudgetAmount returns fixed_amount when only
\* fixed_amount is set (whatever the income), monthly_income * percentage_amount / 100
\* when only percentage_amount is set, and 0 when neither is set.
C4_SingleComponentCeiling ==
    (view.rendered /\ userProfile # Null) =>
        \A i \in 1..Len(budgets) :
            LET fixed == budgets[i].fixed_amount
                percentage == budgets[i].percentage_amount
                ceiling == view.cards[i].budgetAmount
            IN  /\ (fixed # Null /\ percentage = Null) => ceiling = fixed.v * CeilingUnit
                /\ (fixed = Null /\ percentage # Null)
                      => ceiling = userProfile.monthly_income * percentage.v
                /\ (fixed = Null /\ percentage = Null) => ceiling = 0

\* a render with income 3000 of a 10-percent-only budget (ceiling 300), a
\* fixed-only budget of 400 and, in another list position, nothing else needed
C4_Witness ==
    /\ view.rendered
    /\ userProfile = [monthly_income |-> 300000]
    /\ Len(budgets) = 2
    /\ budgets[1].fixed_amount = Null /\ budgets[1].percentage_amount = Num(1000)
    /\ view.cards[1].budgetAmount = 30000 * CeilingUnit
    /\ budgets[2].fixed_amount = Num(40000) /\ budgets[2].percentage_amount = Null
    /\ view.cards[2].budgetAmount = 40000 * CeilingUnit

C6_SpentGroupsByBudget ==
    view.rendered =>
        LET all == 1..Len(purchases)
            unknown == {k \in all : purchases[k].budget_id \notin BudgetIds}
        IN  /\ \A i \in 1..Len(budgets) :
                  view.cards[i].spent =
                      SumAt(purchases, {k \in all : purchases[k].budget_id = budgets[i].id})
            /\ view.totalSpent = SumAt(purchases, all)
            /\ view.totalSpent =
                  SumAt(purchases, all \ unknown) + SumAt(purchases, unknown)
            /\ \A m \in PaymentMethods :
                  view.paymentTotals[m] =
                      SumAt(purchases, {k \in all : purchases[k].payment_method = m})
            /\ (budgets = ScenarioBudgets /\ purchases = ScenarioPurchases
                  /\ userProfile = [monthly_income |-> 300000])
                  => /\ view.cards[1].spent = 12000
                     /\ view.cards[2].spent = 5000
                     /\ view.cards[3].spent = 31000
                     /\ view.paymentTotals = [bank |-> 12000, credit |-> 5000, cash |-> 31000]
                     /\ view.totalSpent = 48000
                     /\ view.cards[3].budgetAmount = 30000 * CeilingUnit
                     /\ view.cards[3].spent * CeilingUnit - view.cards[3].budgetAmount
                           = 1000 * CeilingUnit

\* a render of one purchase of a listed budget and one of a budget that is not listed
C6_Witness ==
    /\ view.rendered
    /\ Len(budgets) = 1
    /\ Len(purchases) = 2
    /\ purchases[1].budget_id = budgets[1].id
    /\ purchases[2].budget_id \notin BudgetIds
    /\ view.cards[1].spent = purchases[1].amount
    /\ view.totalSpent = purchases[1].amount + purchases[2].amount

-----------------------------------------------------------------------------
(* Properties of the purchase filter (SpecFilter).  The clock does not     *)
(* move in SpecFilter: `clock` is the instant the filter last ran at.      *)

Shown == {filteredPurchases[i].id : i \in 1..Len(filteredPurchases)}

MatchesSearch(purchase) ==
    searchTerm = <<>>
        \/ includes(toLowerCase(purchase.description), toLowerCase(searchTerm))

MatchesMethod(purchase) ==
    paymentMethodFilter = "all" \/ purchase.payment_method = paymentMethodFilter

\* the start of the window, from the local wall clock
WindowStart ==
    CASE dateFilter = "today" -> ClockAt(LocalTime(clock, tz)[1], 0, tz)
      [] dateFilter = "week" -> Norm(clock[1] - 7, clock[2])
      [] dateFilter = "month" -> Norm(clock[1] - 30, clock[2])

MatchesDate(purchase) ==
    dateFilter = "all" \/ Leq(WindowStart, ParseIso(purchase.purchase_date))

\* C7: the criteria are applied conjunctively: a purchase is in filteredPurchases if
\* and only if it matches every active criterion (the search text when non-empty, the
\* payment method when not "all", the date window when not "all"); a criterion at its
\* default excludes nothing.
C7_FilterIsConjunction ==
    \A k \in 1..Len(purchases) :
        purchases[k].id \in Shown
            <=> /\ MatchesSearch(purchases[k])
                /\ MatchesMethod(purchases[k])
                /\ MatchesDate(purchases[k])

\* two criteria are active, the shown list is not empty, and a purchase that matches
\* the search text alone is hidden by the payment method
C7_Witness ==
    /\ searchTerm # <<>>
    /\ paymentMethodFilter # "all"
    /\ dateFilter = "all"
    /\ filteredPurchases # <<>>
    /\ \E k \in 1..Len(purchases) :
          /\ MatchesSearch(purchases[k])
          /\ ~MatchesMethod(purchases[k])
          /\ purchases[k].id \notin Shown

\* C8: the date window keeps exactly the purchases with purchase_date >= the start of
\* the current local day ("today"), >= now - 7 * 24 h ("week"), >= now - 30 * 24 h
\* ("month", a rolling window); there is no upper bound, so a purchase dated in the
\* future is kept.
C8_DateWindow ==
    (dateFilter # "all" /\ searchTerm = <<>> /\ paymentMethodFilter = "all") =>
        /\ filteredPurchases =
              SelectSeq(purchases,
                        LAMBDA p : Leq(WindowStart, ParseIso(p.purchase_date)))
        /\ \A k \in 1..Len(purchases) :
              Lt(clock, ParseIso(purchases[k].purchase_date))
                  => purchases[k].id \in Shown

\* "today" away from UTC: the purchase dated at the start of the local day is kept,
\* the one dated a millisecond earlier is dropped
C8_Witness ==
    /\ dateFilter = "today"
    /\ tz # 0
    /\ searchTerm = <<>>
    /\ paymentMethodFilter = "all"
    /\ Len(purchases) = 2
    /\ ParseIso(purchases[1].purchase_date) = ClockAt(LocalTime(clock, tz)[1], 0, tz)
    /\ ParseIso(purchases[2].purchase_date) =
          Norm(ClockAt(LocalTime(clock, tz)[1], 0, tz)[1],
               ClockAt(LocalTime(clock, tz)[1], 0, tz)[2] - 1)
    /\ Shown = {purchases[1].id}

(* Properties of the modal submit handlers (SpecModals). *)

\* the messages the three handlers set when one of their validation rules fails
ValidationMessages ==
    {"Please enter a budget name", "Please enter a valid fixed amount",
     "Please enter a percentage between 1 and 100",
     "Fixed amount must be a positive number", "Percentage must be between 0 and 100",
     "Please enter a valid amount"}

\* an amount field that holds no number, a negative one, or 0 where 0 is not allowed
NotAnAmount(text, zeroAllowed) ==
    LET value == parseFloat(text)
    IN  \/ isNaN(value)
        \/ value.v < 0
        \/ ~zeroAllowed /\ value.v = 0

\* a percentage field that holds no amount or one above 100
NotAPercentage(text, zeroAllowed) ==
    \/ NotAnAmount(text, zeroAllowed)
    \/ parseFloat(text).v > 10000

UsesFixed(form) == form.budgetType \in {"fixed", "hybrid"}
UsesPercentage(form) == form.budgetType \in {"percentage", "hybrid"}

\* a form on which one of the rules its handler checks fails
CreateRuleFails(form) ==
    \/ trim(form.name) = <<>>
    \/ UsesFixed(form) /\ NotAnAmount(form.fixedAmount, FALSE)
    \/ UsesPercentage(form) /\ NotAPercentage(form.percentageAmount, FALSE)

EditRuleFails(form) ==
    \/ trim(form.name) = <<>>
    \/ form.fixedAmount # <<>> /\ NotAnAmount(form.fixedAmount, TRUE)
    \/ form.percentageAmount # <<>> /\ NotAPercentage(form.percentageAmount, TRUE)

PurchaseRuleFails(form) == NotAnAmount(form.amount, FALSE)

SamplePurchaseForms ==
    [budgetId : 1..MaxRows, amount : PurchaseAmountTexts, description : {<<>>, Coffee},
     paymentMethod : {"bank"},
     purchaseDate : {NoDate, [year |-> FirstYear, month |-> 1, date |-> 1]}]

\* each handler answers a failing rule with one of its messages and no request
RuleFailureIsRejected ==
    /\ \A form \in CreateForms :
          CreateRuleFails(form) =>
             LET outcome == CreateBudgetModal_handleSubmit(form)
             IN  outcome.request = Null /\ outcome.error \in ValidationMessages
    /\ \A form \in EditForms :
          EditRuleFails(form) =>
             LET outcome == handleEditSubmit(1, form)
             IN  outcome.request = Null /\ outcome.error \in ValidationMessages
    /\ \A form \in SamplePurchaseForms :
          PurchaseRuleFails(form) =>
             LET outcome == AddPurchaseModal_handleSubmit(form)
             IN  outcome.request = Null /\ outcome.error \in ValidationMessages

\* C9: in CreateBudgetModal, EditBudgetModal and AddPurchaseModal a failing validation
\* rule is answered with a message and no request, and the step that shows the message
\* sends nothing to the store, leaves the stored budgets and purchases as they were,
\* calls neither onSuccess nor onClose, and changes nothing of the modal but its error.
C9_NoPartialMutation ==
    [][/\ RuleFailureIsRejected
       /\ (modal'.error \in ValidationMessages /\ modal'.error # modal.error) =>
             /\ request = Null
             /\ request' = Null
             /\ db_budgets' = db_budgets
             /\ db_purchases' = db_purchases
             /\ calls' = calls
             /\ user' = user
             /\ modal' = [modal EXCEPT !.error = modal'.error]]_vars

\* a modal shows a validation message over a store that holds a budget, nothing in flight
C9_Witness ==
    /\ modal.kind # "none"
    /\ modal.error \in ValidationMessages
    /\ ~modal.loading
    /\ request = Null
    /\ db_budgets # <<>>

\* the create path: with a name, a fixed amount that is no number or <= 0 is rejected
\* for the types fixed and hybrid, and a request never carries such an amount
CreateRejectsNonPositiveFixed ==
    \A form \in CreateForms :
       LET outcome == CreateBudgetModal_handleSubmit(form)
           fixed == parseFloat(form.fixedAmount)
       IN  /\ (UsesFixed(form) /\ trim(form.name) # <<>>
                 /\ (isNaN(fixed) \/ fixed.v <= 0)) =>
                  outcome = Rejected("Please enter a valid fixed amount")
           /\ (UsesFixed(form) /\ outcome.request # Null) =>
                  /\ ~isNaN(fixed)
                  /\ fixed.v > 0
                  /\ outcome.request.row.fixed_amount = fixed

\* the edit path: with a name, a provided fixed amount is rejected exactly when it is
\* no number or < 0; 0 passes and is sent when the percentage passes too
EditRejectsNegativeFixed ==
    \A form \in EditForms :
       LET outcome == handleEditSubmit(1, form)
           fixed == parseFloat(form.fixedAmount)
           provided == form.fixedAmount # <<>>
       IN  /\ (provided /\ trim(form.name) # <<>> /\ (isNaN(fixed) \/ fixed.v < 0)) =>
                  outcome = Rejected("Fixed amount must be a positive number")
           /\ (provided /\ ~isNaN(fixed) /\ fixed.v >= 0) =>
                  outcome.error # "Fixed amount must be a positive number"
           /\ (provided /\ ~isNaN(fixed) /\ fixed.v >= 0 /\ ~EditRuleFails(form)) =>
                  /\ outcome.request # Null
                  /\ outcome.request.row.fixed_amount = fixed

\* C10: the create path (types fixed and hybrid) rejects a fixed amount that is not a
\* number or is <= 0; the edit path rejects a provided fixed amount only when it is not
\* a number or is < 0, and accepts 0.  So an insert in flight carries no fixed amount or
\* a positive one, and an update in flight none or a non-negative one.
C10_FixedAmountByPath ==
    /\ CreateRejectsNonPositiveFixed
    /\ EditRejectsNegativeFixed
    /\ (request # Null /\ request.op = "insert_budget") =>
          \/ request.row.fixed_amount = Null
          \/ request.row.fixed_amount # NaN /\ request.row.fixed_amount.v > 0
    /\ (request # Null /\ request.op = "update_budget") =>
          \/ request.row.fixed_amount = Null
          \/ request.row.fixed_amount # NaN /\ request.row.fixed_amount.v >= 0

\* the edit modal has sent an update with the fixed amount 0 for a budget that the
\* create modal stored with a positive one
C10_Witness ==
    /\ request # Null
    /\ request.op = "update_budget"
    /\ request.row.fixed_amount = Num(0)
    /\ \E i \in 1..Len(db_budgets) :
          /\ db_budgets[i].id = request.id
          /\ Truthy(db_budgets[i].fixed_amount)

\* the create path: a percentage is sent only when it is a number in (0, 100]; with a
\* name and a passing fixed amount, any other percentage is rejected
CreateAcceptsPercentage ==
    \A form \in CreateForms :
       LET outcome == CreateBudgetModal_handleSubmit(form)
           percentage == parseFloat(form.percentageAmount)
           inRange == ~isNaN(percentage) /\ percentage.v > 0 /\ percentage.v <= 10000
           othersPass ==
               /\ trim(form.name) # <<>>
               /\ UsesFixed(form) => ~NotAnAmount(form.fixedAmount, FALSE)
       IN  UsesPercentage(form) =>
              /\ (othersPass /\ ~inRange) =>
                    outcome = Rejected("Please enter a percentage between 1 and 100")
              /\ (othersPass /\ inRange) =>
                    /\ outcome.request # Null
                    /\ outcome.request.row.percentage_amount = percentage
              /\ outcome.request # Null => inRange

\* the edit path: a provided percentage is sent only when it is a number in [0, 100];
\* with a name and a passing fixed amount, any other provided percentage is rejected
EditAcceptsPercentage ==
    \A form \in EditForms :
       LET outcome == handleEditSubmit(1, form)
           percentage == parseFloat(form.percentageAmount)
           inRange == ~isNaN(percentage) /\ percentage.v >= 0 /\ percentage.v <= 10000
           othersPass ==
               /\ trim(form.name) # <<>>
               /\ form.fixedAmount # <<>> => ~NotAnAmount(form.fixedAmount, TRUE)
       IN  form.percentageAmount # <<>> =>
              /\ (othersPass /\ ~inRange) =>
                    outcome = Rejected("Percentage must be between 0 and 100")
              /\ (othersPass /\ inRange) =>
                    /\ outcome.request # Null
                    /\ outcome.request.row.percentage_amount = percentage
              /\ outcome.request # Null => inRange

\* C11: the create path (types percentage and hybrid) accepts a percentage only in
\* (0, 100]; the edit path accepts a provided percentage in [0, 100]; a percentage that
\* is no number or outside the path's range is rejected.  So an insert in flight
\* carries no percentage or one in (0, 100], an update none or one in [0, 100].
C11_PercentageByPath ==
    /\ CreateAcceptsPercentage
    /\ EditAcceptsPercentage
    /\ (request # Null /\ request.op = "insert_budget") =>
          \/ request.row.percentage_amount = Null
          \/ /\ request.row.percentage_amount # NaN
             /\ request.row.percentage_amount.v > 0
             /\ request.row.percentage_amount.v <= 10000
    /\ (request # Null /\ request.op = "update_budget") =>
          \/ request.row.percentage_amount = Null
          \/ /\ request.row.percentage_amount # NaN
             /\ request.row.percentage_amount.v >= 0
             /\ request.row.percentage_amount.v <= 10000

\* the edit modal has sent an update with the percentage 0 for a budget that the create
\* modal stored with the percentage 100
C11_Witness ==
    /\ request # Null
    /\ request.op = "update_budget"
    /\ request.row.percentage_amount = Num(0)
    /\ \E i \in 1..Len(db_budgets) :
          /\ db_budgets[i].id = request.id
          /\ db_budgets[i].percentage_amount = Num(10000)

\* C12: AddPurchaseModal.handleSubmit inserts a purchase only when the entered amount
\* is a number > 0: on every form the open modal can hold, an amount that is no number,
\* 0 or negative is answered with "Please enter a valid amount" and no request, a
\* positive one (with a date) is sent as entered; no insert in flight and no stored
\* purchase has an amount <= 0.
C12_PurchaseAmountPositive ==
    /\ (modal.kind = "add" /\ db_budgets # <<>>) =>
          \A form \in PurchaseForms :
             LET outcome == AddPurchaseModal_handleSubmit(form)
                 purchaseAmount == parseFloat(form.amount)
             IN  IF isNaN(purchaseAmount) \/ purchaseAmount.v <= 0
                 THEN outcome = Rejected("Please enter a valid amount")
                 ELSE /\ outcome.error # "Please enter a valid amount"
                      /\ form.purchaseDate # NoDate =>
                            /\ outcome.request # Null
                            /\ outcome.request.op = "insert_purchase"
                            /\ outcome.request.row.amount = purchaseAmount.v
    /\ (request # Null /\ request.op = "insert_purchase") => request.row.amount > 0
    /\ \A i \in 1..Len(db_purchases) : db_purchases[i].amount > 0

\* a purchase of 12.50 is stored, and the reopened modal has answered another amount
\* with the message, nothing in flight
C12_Witness ==
    /\ modal.kind = "add"
    /\ modal.error = "Please enter a valid amount"
    /\ ~modal.loading
    /\ request = Null
    /\ \E i \in 1..Len(db_purchases) : db_purchases[i].amount = 1250

Inked(text) == {i \in 1..Len(text) : text[i] # " "}

\* a text from its first to its last character that is no space
Core(text) ==
    IF Inked(text) = {} THEN <<>>
    ELSE SubSeq(text, CHOOSE i \in Inked(text) : \A j \in Inked(text) : i <= j,
                      CHOOSE i \in Inked(text) : \A j \in Inked(text) : i >= j)

\* a budget name as the store may hold it: not empty, no space at either end
StorableName(name) == name # <<>> /\ name[1] # " " /\ name[Len(name)] # " "

\* both handlers reject a name without ink and send the core of any other
NameRuleOnForms ==
    /\ \A form \in CreateForms :
          LET outcome == CreateBudgetModal_handleSubmit(form)
          IN  /\ Inked(form.name) = {} => outcome = Rejected("Please enter a budget name")
              /\ outcome.request # Null => outcome.request.row.name = Core(form.name)
    /\ \A form \in EditForms :
          LET outcome == handleEditSubmit(1, form)
          IN  /\ Inked(form.name) = {} => outcome = Rejected("Please enter a budget name")
              /\ outcome.request # Null => outcome.request.row.name = Core(form.name)

\* C14: on the create and on the edit path a budget name that is empty or only spaces
\* is answered with "Please enter a budget name" and no request, and a request carries
\* the name without the spaces at its ends; so every name in flight or stored is not
\* empty and has no space at either end.
C14_NameTrimmed ==
    /\ NameRuleOnForms
    /\ (request # Null /\ request.op \in {"insert_budget", "update_budget"}) =>
          StorableName(request.row.name)
    /\ \A i \in 1..Len(db_budgets) : StorableName(db_budgets[i].name)

\* the name typed as " Rent " is stored as "Rent", and a modal has answered a name of
\* spaces with the message, nothing in flight
C14_Witness ==
    /\ modal.kind \in {"create", "edit"}
    /\ modal.error = "Please enter a budget name"
    /\ request = Null
    /\ \E i \in 1..Len(db_budgets) : db_budgets[i].name = Rent

\* the fields of a form whose rule fails
CreateViolations(form) ==
    {field \in {"name", "fixed_amount", "percentage_amount"} :
        \/ field = "name" /\ Inked(form.name) = {}
        \/ field = "fixed_amount" /\ UsesFixed(form)
              /\ NotAnAmount(form.fixedAmount, FALSE)
        \/ field = "percentage_amount" /\ UsesPercentage(form)
              /\ NotAPercentage(form.percentageAmount, FALSE)}

EditViolations(form) ==
    {field \in {"name", "fixed_amount", "percentage_amount"} :
        \/ field = "name" /\ Inked(form.name) = {}
        \/ field = "fixed_amount" /\ form.fixedAmount # <<>>
              /\ NotAnAmount(form.fixedAmount, TRUE)
        \/ field = "percentage_amount" /\ form.percentageAmount # <<>>
              /\ NotAPercentage(form.percentageAmount, TRUE)}

\* the fields that the error text of a modal reports
ReportedFields(error) ==
    CASE error = "Please enter a budget name" -> {"name"}
      [] error \in {"Please enter a valid fixed amount",
                    "Fixed amount must be a positive number"} -> {"fixed_amount"}
      [] error \in {"Please enter a percentage between 1 and 100",
                    "Percentage must be between 0 and 100"} -> {"percentage_amount"}
      [] OTHER -> {}

\* C15: a submission is answered with success or with its violations, every violated
\* field reported: after the create or the edit handler has run on a form, the error
\* the modal shows reports each field of the form whose rule fails.
C15_EveryViolationReported ==
    [][/\ (modal.kind = "create" /\ ~modal.loading /\ user # Null) =>
             \A form \in CreateForms :
                Handled(CreateBudgetModal_handleSubmit(form)) =>
                   CreateViolations(form) \subseteq ReportedFields(modal'.error)
       /\ (modal.kind = "edit" /\ ~modal.loading) =>
             \A form \in EditForms :
                Handled(handleEditSubmit(modal.budgetId, form)) =>
                   EditViolations(form) \subseteq ReportedFields(modal'.error)]_vars

(* Properties of the budget cards (SpecDashboard). *)

\* C16: BudgetCard's remaining is budgetAmount - spent, unclamped: on every rendered
\* card it is that difference; where spent exceeds budgetAmount it is negative and is
\* shown as a negative amount, in red.
C16_RemainingUnclamped ==
    view.rendered =>
       \A i \in 1..Len(view.cards) :
          LET card == view.cards[i]
              difference == card.budgetAmount - card.spent * CeilingUnit
          IN  /\ card.remaining = difference
              /\ card.spent * CeilingUnit > card.budgetAmount =>
                    /\ card.remaining < 0
                    /\ card.remainingText.minus
                    /\ card.remainingText.cents * CeilingUnit - CeilingUnit \div 2
                          <= -difference
                    /\ -difference
                          < card.remainingText.cents * CeilingUnit + CeilingUnit \div 2
                    /\ card.remainingClass = "text-red-600"

\* the scenario's budget C, ceiling 300 and 310 spent: remaining is shown as -10.00
C16_Witness ==
    /\ view.rendered
    /\ Len(view.cards) = 3
    /\ view.cards[3].budgetAmount = 30000 * CeilingUnit
    /\ view.cards[3].spent = 31000
    /\ view.cards[3].remaining = -1000 * CeilingUnit
    /\ view.cards[3].remainingText = [minus |-> TRUE, cents |-> 1000]

\* the monthly incomes a rendered ceiling is compared across
Incomes == {0, 100000, 250000, 300000}

\* C17: for a budget with percentage_amount set, calculateBudgetAmount does not decrease
\* as monthly_income grows; for a budget with only fixed_amount set it does not depend
\* on monthly_income.  Each rendered ceiling is compared with the ceiling of the same
\* budget under every other income.
C17_MonotoneInIncome ==
    (view.rendered /\ userProfile # Null) =>
       \A i \in 1..Len(budgets) :
          \A income \in Incomes :
             LET here == view.cards[i].budgetAmount
                 there == calculateBudgetAmount([monthly_income |-> income], budgets[i])
             IN  /\ budgets[i].percentage_amount # Null =>
                       /\ income <= userProfile.monthly_income => there <= here
                       /\ income >= userProfile.monthly_income => there >= here
                 /\ (budgets[i].percentage_amount = Null
                       /\ budgets[i].fixed_amount # Null) => there = here

\* rendered with income 3000: a hybrid budget at 300 that a lower income would lower,
\* beside a fixed-only budget of 400
C17_Witness ==
    /\ view.rendered
    /\ userProfile = [monthly_income |-> 300000]
    /\ \E i \in 1..Len(budgets) :
          /\ budgets[i].fixed_amount = Num(40000)
          /\ budgets[i].percentage_amount = Num(1000)
          /\ view.cards[i].budgetAmount = 30000 * CeilingUnit
          /\ calculateBudgetAmount([monthly_income |-> 100000], budgets[i])
                = 10000 * CeilingUnit
    /\ \E i \in 1..Len(budgets) :
          /\ budgets[i].fixed_amount = Num(40000)
          /\ budgets[i].percentage_amount = Null
          /\ view.cards[i].budgetAmount = 40000 * CeilingUnit

(* Properties of the text criterion and of the shape of the filtered list
   (SpecFilter). *)

\* two characters that are the same letter, whatever their case
SameLetter(a, b) ==
    \/ a = b
    \/ \E pair \in {<<"A", "a">>, <<"C", "c">>, <<"E", "e">>, <<"F", "f">>,
                    <<"O", "o">>, <<"R", "r">>, <<"T", "t">>} :
          {a, b} = {pair[1], pair[2]}

\* the term occurs in the text at some position, letter by letter, case ignored
ContainsIgnoringCase(text, term) ==
    \E start \in 0..(Len(text) - Len(term)) :
       \A j \in 1..Len(term) : SameLetter(text[start + j], term[j])

\* C18: the text criterion is a case-insensitive substring match on description, and
\* an empty search term disables it: a shown purchase always contains the search term,
\* case ignored, and with the other two criteria at "all" a purchase is shown if and
\* only if the term is empty or its description contains the term, case ignored.
C18_TextCriterion ==
    /\ \A k \in 1..Len(filteredPurchases) :
          ContainsIgnoringCase(filteredPurchases[k].description, searchTerm)
    /\ (paymentMethodFilter = "all" /\ dateFilter = "all") =>
          \A k \in 1..Len(purchases) :
             purchases[k].id \in Shown
                <=> \/ searchTerm = <<>>
                    \/ ContainsIgnoringCase(purchases[k].description, searchTerm)

\* the term "Ea" shows the purchase described "tea", in whose middle it occurs in
\* another case, and hides the purchase described "Coffee"
C18_Witness ==
    /\ searchTerm = <<"E", "a">>
    /\ paymentMethodFilter = "all"
    /\ dateFilter = "all"
    /\ \E k \in 1..Len(purchases) :
          purchases[k].description = Tea /\ purchases[k].id \in Shown
    /\ \E k \in 1..Len(purchases) :
          purchases[k].description = Coffee /\ purchases[k].id \notin Shown

\* the position in purchases of the k-th shown purchase (ids are unique)
PositionOf(k) == CHOOSE i \in 1..Len(purchases) : purchases[i].id = filteredPurchases[k].id

\* filteredPurchases picks purchases at increasing positions of the list purchases
IsSubsequence ==
    /\ \A k \in 1..Len(filteredPurchases) :
          \E i \in 1..Len(purchases) : purchases[i] = filteredPurchases[k]
    /\ \A k, l \in 1..Len(filteredPurchases) :
          k < l => PositionOf(k) < PositionOf(l)

\* C19: filteredPurchases is always a subsequence of purchases: every shown purchase is
\* one of the input, none is shown twice, and the shown ones keep the relative order of
\* the input; filtering leaves the list purchases itself as it was.
C19_FilteredIsSubsequence ==
    /\ [](IsSubsequence)
    /\ [][purchases' = purchases]_vars

\* two purchases are fetched, a criterion is active, and both are shown, in their order
C19_Witness ==
    /\ searchTerm # <<>>
    /\ Len(purchases) = 2
    /\ purchases[1] # purchases[2]
    /\ filteredPurchases = purchases

\* C20: with every criterion at its default (empty search text, payment method "all",
\* date filter "all") filteredPurchases equals purchases, element for element.
C20_DefaultsAreIdentity ==
    (searchTerm = <<>> /\ paymentMethodFilter = "all" /\ dateFilter = "all") =>
        /\ Len(filteredPurchases) = Len(purchases)
        /\ \A k \in 1..Len(purchases) : filteredPurchases[k] = purchases[k]

\* the defaults over two different purchases, one of them dated before now
C20_Witness ==
    /\ searchTerm = <<>>
    /\ paymentMethodFilter = "all"
    /\ dateFilter = "all"
    /\ Len(purchases) = 2
    /\ purchases[1].description # purchases[2].description
    /\ Lt(ParseIso(purchases[2].purchase_date), clock)
    /\ Len(filteredPurchases) = 2

\* C21: filtering is idempotent: under the same criteria and at the same instant, the
\* filter applied to the list it has produced gives that list again.
C21_FilterIdempotent ==
    filterPurchases(filteredPurchases, searchTerm, paymentMethodFilter, dateFilter,
                    clock, tz) = filteredPurchases

\* every criterion is active, one of two purchases is dropped and the other is kept
C21_Witness ==
    /\ searchTerm # <<>>
    /\ paymentMethodFilter # "all"
    /\ dateFilter # "all"
    /\ Len(purchases) = 2
    /\ Len(filteredPurchases) = 1

-----------------------------------------------------------------------------
(* The Dashboard's fetch of the current period's purchases (SpecFetch).     *)

\* .order("purchase_date", { ascending: false })
RECURSIVE OrderByDateDescending(_)
OrderByDateDescending(rows) ==
    IF rows = <<>> THEN <<>>
    ELSE LET k == CHOOSE k \in 1..Len(rows) :
                     \A j \in 1..Len(rows) :
                        Leq(ParseIso(rows[j].purchase_date), ParseIso(rows[k].purchase_date))
         IN  <<rows[k]>>
                \o OrderByDateDescending(SubSeq(rows, 1, k - 1)
                                           \o SubSeq(rows, k + 1, Len(rows)))

\* the purchases select of fetchUserData: .gte("purchase_date", periodStart.toISOString())
\* .lte("purchase_date", periodEnd.toISOString()), compared as instants by the store
SelectPeriodPurchases(rows, periodStart, periodEnd) ==
    OrderByDateDescending(
        SelectSeq(rows, LAMBDA row :
            /\ Leq(ParseIso(toISOString(periodStart)), ParseIso(row.purchase_date))
            /\ Leq(ParseIso(row.purchase_date), ParseIso(toISOString(periodEnd)))))

\* fetchUserData over the store as it is when the selects run
fetchUserData(storedPurchases) ==
    IF user = Null
    THEN UNCHANGED <<userProfile, budgets, purchases, period, dashboard>>
    ELSE /\ userProfile' = db_user
         /\ budgets' = db_budgets
         /\ IF db_user # Null
            THEN LET now == clock
                     current == getCurrentTrackingPeriod(tracking_start_day, now, tz)
                 IN  /\ period' = [called |-> TRUE, now |-> now,
                                   periodStart |-> current.periodStart,
                                   periodEnd |-> current.periodEnd]
                     /\ purchases' = SelectPeriodPurchases(storedPurchases,
                                                           current.periodStart,
                                                           current.periodEnd)
            ELSE UNCHANGED <<purchases, period>>
         /\ dashboard' = [dashboard EXCEPT !.loading = FALSE, !.fetching = FALSE]

\* the calendar dates a user picks in the date input of AddPurchaseModal
PickedDates == [year : {FirstYear}, month : 2..4, date : {1, 2, 14, 15, 16, 28}]

\* noon of 10 March and of 20 March of FirstYear, local time
FetchClocks(offset) ==
    {ClockAt(MakeDay(FirstYear, 2, date), 12 * 60 * 60 * 1000, offset) : date \in {10, 20}}

FetchInit ==
    /\ tz \in TZOffsets
    /\ clock \in FetchClocks(tz)
    /\ tracking_start_day \in {1, 15}
    /\ period = NoPeriod
    /\ DashboardIdle
    /\ FilterIdle
    /\ user = [id |-> "u1"]
    /\ db_user \in {Null, [monthly_income |-> 300000]}
    /\ db_budgets = <<[id |-> 1, name |-> Rent, fixed_amount |-> Num(40000),
                       percentage_amount |-> Null]>>
    /\ db_purchases = <<>>
    /\ modal = NoModal
    /\ request = Null
    /\ calls = <<>>
    /\ dashboard = DashboardUnmounted
    /\ route = NoRoute
    /\ account = NoAccountFlow

\* Dashboard's effect on [user], and every later refetch (onUpdate, onComplete)
RunFetchUserData ==
    /\ fetchUserData(db_purchases)
    /\ UNCHANGED <<clock, tz, tracking_start_day, view, filterVars, modalVars, db_user,
                   route, account>>

\* on the main view: AddPurchaseModal's submit with a picked date, the store's insert,
\* then onSuccess = fetchUserData and onClose
EnterPurchase ==
    /\ ~dashboard.loading
    /\ userProfile # Null
    /\ user # Null
    /\ Len(db_purchases) < MaxRows
    /\ \E picked \in PickedDates :
          LET outcome == AddPurchaseModal_handleSubmit(
                             [budgetId |-> db_budgets[1].id, amount |-> <<"5">>,
                              description |-> Coffee, paymentMethod |-> "bank",
                              purchaseDate |-> picked])
              stored == Append(db_purchases, outcome.request.row)
          IN  /\ db_purchases' = stored
              /\ fetchUserData(stored)
    /\ UNCHANGED <<clock, tz, tracking_start_day, view, filterVars, user, db_budgets,
                   modal, request, calls, db_user, route, account>>

FetchNext == RunFetchUserData \/ EnterPurchase

SpecFetch == FetchInit /\ [][FetchNext]_vars

\* the calendar date of a stored purchase, and the local calendar date of an instant,
\* as day numbers
EnteredDay(row) ==
    MakeDay(row.purchase_date.year, row.purchase_date.month - 1, row.purchase_date.date)

LocalDay(t) == LocalTime(t, tz)[1]

\* C22: in every time zone a purchase entered with calendar date d is among the
\* Dashboard's current-period purchases if and only if d lies between the calendar
\* dates of periodStart and periodEnd, both inclusive.
C22_IncludedByCalendarDate ==
    (period.called /\ userProfile # Null) =>
       \A i \in 1..Len(db_purchases) :
          (\E k \in 1..Len(purchases) : purchases[k] = db_purchases[i])
             <=> /\ LocalDay(period.periodStart) <= EnteredDay(db_purchases[i])
                 /\ EnteredDay(db_purchases[i]) <= LocalDay(period.periodEnd)

-----------------------------------------------------------------------------
(* Properties of the tracking period for late start days and over time
   (SpecPeriod). *)

\* C23: for every trackingStartDay in 29..31 and every instant now, months shorter
\* than trackingStartDay included, the period getCurrentTrackingPeriod returns
\* satisfies periodStart <= now <= periodEnd.
C23_LateStartDayContainsNow ==
    (period.called /\ tracking_start_day \in 29..31)
        => /\ Leq(period.periodStart, period.now)
           /\ Leq(period.now, period.periodEnd)

PlusMs(t, ms) == Norm(t[1], t[2] + ms)

\* the period the calculator gives at another instant, with the state's start day
PeriodAt(t) == getCurrentTrackingPeriod(tracking_start_day, t, tz)

\* C24: for a trackingStartDay in 1..28 the periods tile the timeline.  The period of
\* now also is the period of its own first and last instant; the instant one
\* millisecond after periodEnd starts the next period, and the one a millisecond before
\* periodStart ends the previous one; a day later the period is the same, unless that
\* day's day of the month is trackingStartDay, and then it is the next period.
C24_PeriodsTile ==
    (period.called /\ tracking_start_day \in 1..28) =>
       LET this == [periodStart |-> period.periodStart, periodEnd |-> period.periodEnd]
           after == PlusMs(period.periodEnd, 1)
           before == PlusMs(period.periodStart, -1)
           tomorrow == <<period.now[1] + 1, period.now[2]>>
       IN  /\ PeriodAt(period.periodStart) = this
           /\ PeriodAt(period.periodEnd) = this
           /\ PeriodAt(after).periodStart = after
           /\ PeriodAt(before).periodEnd = before
           /\ IF getDate(tomorrow, tz) = tracking_start_day
              THEN PeriodAt(tomorrow).periodStart = after
              ELSE PeriodAt(tomorrow) = this

\* the calculator ran at the last millisecond of a period that started in the month
\* before: now is periodEnd, and tomorrow is day 15, the start day
C24_Witness ==
    /\ period.called
    /\ tracking_start_day = 15
    /\ period.now = period.periodEnd
    /\ getDate(PlusMs(period.now, 1), tz) = 15
    /\ getMonth(period.periodStart, tz) # getMonth(period.now, tz)

-----------------------------------------------------------------------------
(* Properties of the card's status banner (SpecDashboard).                 *)

-----------------------------------------------------------------------------
(* AppContent: the routes and their guard.                                 *)
(*                                                                         *)
(* The auth context provides user and loading.  The browser keeps the      *)
(* current path above a stack of earlier entries; <Navigate replace>       *)
(* replaces the current entry.                                             *)

\* the element of the route that matches the path
RouteElement_unguardedBudget(u, path) ==
    IF path = <<>>
    THEN IF u # Null THEN [t |-> "Navigate", to |-> <<"dashboard">>]
         ELSE [t |-> "AuthForm"]
    ELSE IF path = <<"dashboard">>
    THEN IF u # Null THEN [t |-> "Dashboard"] ELSE [t |-> "Navigate", to |-> <<>>]
    ELSE IF Len(path) = 2 /\ path[1] = "budget"
    THEN [t |-> "BudgetPurchases"]
    ELSE [t |-> "Navigate", to |-> IF u # Null THEN <<"dashboard">> ELSE <<>>]

RouteElement(u, path) ==
    IF path = <<>>
    THEN IF u # Null THEN [t |-> "Navigate", to |-> <<"dashboard">>]
         ELSE [t |-> "AuthForm"]
    ELSE IF path = <<"dashboard">>
    THEN IF u # Null THEN [t |-> "Dashboard"] ELSE [t |-> "Navigate", to |-> <<>>]
    ELSE IF Len(path) = 2 /\ path[1] = "budget"
    THEN IF u # Null THEN [t |-> "BudgetPurchases"] ELSE [t |-> "Navigate", to |-> <<>>]
    ELSE [t |-> "Navigate", to |-> IF u # Null THEN <<"dashboard">> ELSE <<>>]

\* the router renders the element of the path and follows each Navigate
RECURSIVE Routes(_, _)
Routes(u, path) ==
    LET element == RouteElement(u, path)
    IN  IF element.t = "Navigate" THEN Routes(u, element.to)
        ELSE [path |-> path, screen |-> element.t]

\* one render of AppContent with the browser at the path asked for
AppContent(loading, u, requested, back) ==
    IF loading
    THEN [loading |-> TRUE, requested |-> requested, path |-> requested, back |-> back,
          screen |-> "loading"]
    ELSE [loading |-> FALSE, requested |-> requested, path |-> Routes(u, requested).path,
          back |-> back, screen |-> Routes(u, requested).screen]

BudgetPaths == {<<"budget", "b1">>, <<"budget", "b2">>}

Paths ==
    {<<>>, <<"dashboard">>, <<"budget">>, <<"settings">>, <<"budget", "b1", "edit">>}
        \cup BudgetPaths

Users == {[id |-> "u1"]}

Unchanged_byRoutes ==
    UNCHANGED <<periodVars, dashVars, filterVars, db_budgets, db_purchases, modal,
                request, calls, db_user, dashboard, account>>

\* the app is opened at any URL; the auth context starts with loading and no user
RoutesInit ==
    /\ PeriodIdle
    /\ DashboardIdle
    /\ FilterIdle
    /\ ModalIdle
    /\ db_user = Null
    /\ dashboard = DashboardUnmounted
    /\ account = NoAccountFlow
    /\ \E opened \in Paths : route = AppContent(TRUE, Null, opened, <<>>)

\* the auth context has read the stored session: user is set, loading ends
SessionLoaded ==
    /\ route.loading
    /\ \E u \in Users \cup {Null} :
          /\ user' = u
          /\ route' = AppContent(FALSE, u, route.path, route.back)
    /\ Unchanged_byRoutes

\* the auth context's user changes: a sign-in, or a sign-out
AuthStateChange ==
    /\ \E u \in Users \cup {Null} :
          /\ u # user
          /\ user' = u
          /\ route' = AppContent(route.loading, u, route.path, route.back)
    /\ Unchanged_byRoutes

\* a link, a navigate() call or the address bar pushes a path
Visit ==
    /\ ~route.loading
    /\ Len(route.back) < MaxHistory
    /\ \E asked \in Paths :
          route' = AppContent(FALSE, user, asked, Append(route.back, route.path))
    /\ UNCHANGED user
    /\ Unchanged_byRoutes

\* the browser's back button
Back ==
    /\ ~route.loading
    /\ route.back # <<>>
    /\ route' = AppContent(FALSE, user, route.back[Len(route.back)],
                           SubSeq(route.back, 1, Len(route.back) - 1))
    /\ UNCHANGED user
    /\ Unchanged_byRoutes

RoutesNext == SessionLoaded \/ AuthStateChange \/ Visit \/ Back

SpecRoutes == RoutesInit /\ [][RoutesNext]_vars

\* the paths no route but "*" matches
UnknownPaths ==
    {path \in Paths : path # <<>> /\ path # <<"dashboard">> /\ path \notin BudgetPaths}

\* C26: Dashboard or BudgetPurchases is rendered only when loading is false and user is
\* not null; while loading no route is rendered; with no user every path asked for ends
\* at the auth form on "/"; with a user, "/" and the unknown paths end at the Dashboard
\* on "/dashboard", "/dashboard" shows the Dashboard and "/budget/:budgetId" shows
\* BudgetPurchases at the path asked for.
C26_RouteGuard ==
    /\ route.screen \in {"Dashboard", "BudgetPurchases"} => (~route.loading /\ user # Null)
    /\ route.loading => route.screen = "loading"
    /\ (~route.loading /\ user = Null) =>
          (route.screen = "AuthForm" /\ route.path = <<>>)
    /\ (~route.loading /\ user # Null /\ route.requested \in UnknownPaths \cup {<<>>}) =>
          (route.screen = "Dashboard" /\ route.path = <<"dashboard">>)
    /\ (~route.loading /\ user # Null /\ route.requested = <<"dashboard">>) =>
          (route.screen = "Dashboard" /\ route.path = <<"dashboard">>)
    /\ (~route.loading /\ user # Null /\ route.requested \in BudgetPaths) =>
          (route.screen = "BudgetPurchases" /\ route.path = route.requested)

\* signed out, a budget's page was asked for and the auth form is shown on "/", above a
\* history entry of that budget's page
C26_Witness ==
    /\ ~route.loading
    /\ user = Null
    /\ route.requested \in BudgetPaths
    /\ route.screen = "AuthForm"
    /\ route.back # <<>>
    /\ route.back[Len(route.back)] \in BudgetPaths

-----------------------------------------------------------------------------
(* Properties of the modals' callbacks and loading flag (SpecModals).      *)

\* the awaited request of a handler resolves in this step
Resolved == request # Null /\ request' = Null

\* the handler calls onSuccess() and then onClose() in this step
CallsBack == calls' = calls \o <<"onSuccess", "onClose">>

\* C27: a handler calls onSuccess and then onClose exactly in the step in which its
\* store write returns without error (the row is written); no other step changes the
\* store or calls onSuccess, the only other call being the close button's onClose.  When
\* the request fails or throws, or the handler stops before the request (a validation
\* failure, or an exception), no callback is called and a modal that is mounted stays
\* open, not loading, and shows an error.
C27_CallbacksIffStored ==
    [][ /\ CallsBack => (Resolved /\ Applied(request))
        /\ (db_budgets' # db_budgets \/ db_purchases' # db_purchases) =>
              (Resolved /\ CallsBack)
        /\ (calls' # calls /\ ~CallsBack) =>
              \/ calls' = Append(calls, "onClose") /\ request' = request
              \/ calls' = <<>> /\ modal.kind = "none"
        /\ (Resolved /\ ~CallsBack) =>
              /\ calls' = calls
              /\ modal.kind # "none" =>
                    /\ modal'.kind = modal.kind
                    /\ modal'.error # ""
                    /\ ~modal'.loading
        /\ (request = Null /\ request' = Null /\ modal.kind # "none"
                /\ modal' # modal /\ modal'.kind = modal.kind) =>
              /\ calls' = calls
              /\ modal'.error \in ValidationMessages \cup {CatchMessage(modal.kind)}
              /\ ~modal'.loading
      ]_vars

\* a purchase was stored and the handler called onSuccess and then onClose; the parent
\* has unmounted the modal
C27_Witness ==
    /\ db_purchases # <<>>
    /\ Len(calls) >= 2
    /\ SubSeq(calls, Len(calls) - 1, Len(calls)) = <<"onSuccess", "onClose">>
    /\ modal = NoModal
    /\ request = Null

\* C28: no submit leaves the loading flag set.  Whenever no request is awaited (the
\* submit returned for a missing user, failed validation or threw, or its request has
\* settled with or without error) loading is false, and whenever loading is true it
\* eventually is false again.
C28_LoadingEventuallyFalse ==
    /\ [](request = Null => ~modal.loading)
    /\ (modal.loading ~> ~modal.loading)

\* a request failed: the modal is still open, shows the store's message and its submit
\* button is enabled again
C28_Witness ==
    /\ modal.kind = "edit"
    /\ modal.error = "store error"
    /\ ~modal.loading
    /\ request = Null

-----------------------------------------------------------------------------
(* The Dashboard's screens and IncomeSetup (the settings).                 *)

Str(text) == [t |-> "string", v |-> text]

\* what the Dashboard returns: the spinner, IncomeSetup or the main view
DashboardScreen_anyProfile(loading, profile, showIncomeSetup) ==
    IF loading THEN "loading"
    ELSE IF profile = Null \/ showIncomeSetup THEN "IncomeSetup"
    ELSE "main"

DashboardScreen(loading, profile, showIncomeSetup) ==
    IF loading THEN "loading"
    ELSE IF profile = Null \/ profile.monthly_income = 0 \/ showIncomeSetup
         THEN "IncomeSetup"
    ELSE "main"

Screen == DashboardScreen(dashboard.loading, userProfile, dashboard.showIncomeSetup)

\* IncomeSetup.handleProfileSubmit, from setLoading(true) to the upsert
handleProfileSubmit_nonNegative(monthlyIncome) ==
    LET income == parseFloat(monthlyIncome)
    IN  IF isNaN(income) \/ income.v < 0
        THEN Rejected("Please enter a valid monthly income")
        ELSE Sent([op |-> "upsert_user", row |-> [monthly_income |-> income.v]])

handleProfileSubmit(monthlyIncome) ==
    LET income == parseFloat(monthlyIncome)
    IN  IF isNaN(income) \/ income.v <= 0
        THEN Rejected("Please enter a valid monthly income")
        ELSE Sent([op |-> "upsert_user", row |-> [monthly_income |-> income.v]])

IncomeTexts == {<<>>, <<"a", "b", "c">>, <<"0">>, <<"-", "5">>, <<"3", "0", "0", "0">>,
                <<"4", "5", "0", "0", ".", "5">>}

confirmText == "DELETE MY ACCOUNT"

\* what prompt() returns: null on Cancel, else the text typed
PromptInputs ==
    {Null, Str(""), Str("DELETE MY ACCOUNT"), Str("delete my account"),
     Str("DELETE MY ACCOUNT ")}

Unchanged_bySettings ==
    UNCHANGED <<clock, tz, tracking_start_day, view, filterVars, db_budgets,
                db_purchases, modal, request, calls, route>>

\* the Dashboard has mounted under a signed-in user and its effect has called
\* fetchUserData; the users row is missing, has the default income 0, or an income
SettingsInit ==
    /\ user = [id |-> "u1"]
    /\ db_user \in Profiles
    /\ dashboard = [DashboardUnmounted EXCEPT !.fetching = TRUE]
    /\ account = NoAccountFlow
    /\ route = NoRoute
    /\ db_budgets = <<>>
    /\ db_purchases = <<>>
    /\ modal = NoModal
    /\ request = Null
    /\ calls = <<>>
    /\ PeriodIdle
    /\ DashboardIdle
    /\ FilterIdle

\* fetchUserData returns
FetchReturns ==
    /\ dashboard.fetching
    /\ user # Null
    /\ fetchUserData(db_purchases)
    /\ UNCHANGED <<user, db_user, account>>
    /\ Unchanged_bySettings

\* fetchUserData throws before setUserProfile: console.error, finally setLoading(false)
FetchThrows ==
    /\ dashboard.fetching
    /\ user # Null
    /\ dashboard' = [dashboard EXCEPT !.loading = FALSE, !.fetching = FALSE]
    /\ UNCHANGED <<user, db_user, account, userProfile, budgets, purchases, period>>
    /\ Unchanged_bySettings

\* the settings button of the main view: setShowIncomeSetup(true)
OpenSettings ==
    /\ user # Null
    /\ Screen = "main"
    /\ dashboard' = [dashboard EXCEPT !.showIncomeSetup = TRUE]
    /\ UNCHANGED <<user, db_user, account, userProfile, budgets, purchases, period>>
    /\ Unchanged_bySettings

\* Done: onComplete = setShowIncomeSetup(false); fetchUserData()
Done ==
    /\ user # Null
    /\ Screen = "IncomeSetup"
    /\ dashboard' = [dashboard EXCEPT !.showIncomeSetup = FALSE, !.fetching = TRUE]
    /\ UNCHANGED <<user, db_user, account, userProfile, budgets, purchases, period>>
    /\ Unchanged_bySettings

\* the profile form is submitted
SubmitProfile ==
    /\ user # Null
    /\ Screen = "IncomeSetup"
    /\ ~account.loading
    /\ \E monthlyIncome \in IncomeTexts :
          LET outcome == handleProfileSubmit(monthlyIncome)
          IN  account' = [account EXCEPT !.loading = outcome.loading,
                                         !.error = outcome.error,
                                         !.success = "",
                                         !.profileRequest = outcome.request]
    /\ UNCHANGED <<user, db_user, dashboard, userProfile, budgets, purchases, period>>
    /\ Unchanged_bySettings

\* the upsert returns without error (the row is written), with an error, or throws
UpsertReturns ==
    /\ account.profileRequest # Null
    /\ \/ /\ db_user' = account.profileRequest.row
          /\ account' = [account EXCEPT !.loading = FALSE, !.profileRequest = Null,
                                        !.success = "Profile updated successfully!"]
       \/ /\ \E message \in {"store error", "An unexpected error occurred"} :
                account' = [account EXCEPT !.loading = FALSE, !.profileRequest = Null,
                                           !.error = message]
          /\ UNCHANGED db_user
    /\ UNCHANGED <<user, dashboard, userProfile, budgets, purchases, period>>
    /\ Unchanged_bySettings

\* setTimeout(() => setSuccess(""), 3000)
SuccessExpires ==
    /\ account.success # ""
    /\ account' = [account EXCEPT !.success = ""]
    /\ UNCHANGED <<user, db_user, dashboard, userProfile, budgets, purchases, period>>
    /\ Unchanged_bySettings

\* handleDeleteAccount up to its first await: the prompt, and the users-row delete
DeleteAccount ==
    /\ user # Null
    /\ Screen = "IncomeSetup"
    /\ ~account.deleteLoading
    /\ \E userInput \in PromptInputs :
          IF userInput # Str(confirmText)
          THEN account' = [account EXCEPT !.input = userInput, !.done = <<>>,
                                          !.results = <<>>]
          ELSE account' = [account EXCEPT !.input = userInput,
                                          !.deleteLoading = TRUE,
                                          !.step = "users.delete",
                                          !.done = <<"users.delete">>,
                                          !.results = <<>>]
    /\ UNCHANGED <<user, db_user, dashboard, userProfile, budgets, purchases, period>>
    /\ Unchanged_bySettings

\* the flow ends in the catch block or at a return: the finally block runs
FlowEnds(result, message) ==
    account' = [account EXCEPT !.results = Append(account.results, result),
                               !.error = message,
                               !.step = "idle",
                               !.deleteLoading = FALSE]

FlowGoesOn(result, next) ==
    account' = [account EXCEPT !.results = Append(account.results, result),
                               !.step = next,
                               !.done = Append(account.done, next)]

deleteThrew == "An unexpected error occurred while deleting your account"

\* the users-row delete returns: without error, with deleteError, or it throws
RowDeleteReturns ==
    /\ account.step = "users.delete"
    /\ \/ db_user' = Null /\ FlowGoesOn("ok", "auth.admin.deleteUser")
       \/ UNCHANGED db_user /\ FlowEnds("error", "Failed to delete account data")
       \/ UNCHANGED db_user /\ FlowEnds("thrown", deleteThrew)
    /\ UNCHANGED <<user, dashboard, userProfile, budgets, purchases, period>>
    /\ Unchanged_bySettings

AuthDeleteReturns_stopsOnError ==
    /\ account.step = "auth.admin.deleteUser"
    /\ \/ FlowGoesOn("ok", "signOut")
       \/ FlowEnds("error", account.error)
       \/ FlowEnds("thrown", deleteThrew)
    /\ UNCHANGED <<user, db_user, dashboard, userProfile, budgets, purchases, period>>
    /\ Unchanged_bySettings

\* supabase.auth.admin.deleteUser returns: without error, with authError (logged), or
\* it throws
AuthDeleteReturns ==
    /\ account.step = "auth.admin.deleteUser"
    /\ \/ FlowGoesOn("ok", "signOut")
       \/ FlowGoesOn("error", "signOut")
       \/ FlowEnds("thrown", deleteThrew)
    /\ UNCHANGED <<user, db_user, dashboard, userProfile, budgets, purchases, period>>
    /\ Unchanged_bySettings

\* signOut() returns (the auth context has no user any more), or it throws
SignOutReturns ==
    /\ account.step = "signOut"
    /\ \/ user' = Null /\ FlowEnds("ok", account.error)
       \/ UNCHANGED user /\ FlowEnds("thrown", deleteThrew)
    /\ UNCHANGED <<db_user, dashboard, userProfile, budgets, purchases, period>>
    /\ Unchanged_bySettings

SettingsNext ==
    \/ FetchReturns
    \/ FetchThrows
    \/ OpenSettings
    \/ Done
    \/ SubmitProfile
    \/ UpsertReturns
    \/ SuccessExpires
    \/ DeleteAccount
    \/ RowDeleteReturns
    \/ AuthDeleteReturns
    \/ SignOutReturns

SpecSettings == SettingsInit /\ [][SettingsNext]_vars

-----------------------------------------------------------------------------
(* Properties of the account deletion and of the Dashboard's screens       *)
(* (SpecSettings).                                                         *)

DeletionOrder == <<"users.delete", "auth.admin.deleteUser", "signOut">>

\* C29: the calls of an account deletion are made in the order users-row delete,
\* auth-user deletion, sign-out.  None is made unless the prompt's answer is exactly
\* "DELETE MY ACCOUNT"; the auth-user deletion and the sign-out are made only after the
\* row delete returned without error; when the auth-user deletion has returned, with or
\* without error, the sign-out has been called; the users row is removed only by a row
\* delete that was confirmed; and deleteLoading is true exactly while a call is awaited,
\* so it is false when the flow has ended.
C29_DeletionOrder ==
    /\ [](/\ account.done = SubSeq(DeletionOrder, 1, Len(account.done))
          /\ account.done # <<>> => account.input = Str("DELETE MY ACCOUNT")
          /\ Len(account.done) >= 2 => account.results[1] = "ok"
          /\ (Len(account.results) >= 2 /\ account.results[2] \in {"ok", "error"}) =>
                account.done = DeletionOrder
          /\ account.deleteLoading <=> account.step # "idle"
          /\ account.step # "idle" =>
                /\ Len(account.results) = Len(account.done) - 1
                /\ account.step = account.done[Len(account.done)])
    /\ [][(db_user # Null /\ db_user' = Null) =>
             (account.step = "users.delete" /\ account.input = Str("DELETE MY ACCOUNT"))]_vars

\* the row delete succeeded, the auth-user deletion returned an error, the sign-out was
\* still made and has returned: no user, and deleteLoading is false
C29_Witness ==
    /\ account.done = DeletionOrder
    /\ account.results = <<"ok", "error", "ok">>
    /\ account.step = "idle"
    /\ ~account.deleteLoading
    /\ user = Null
    /\ db_user = Null

\* a users row with a positive monthly income
PositiveIncome(profile) == profile # Null /\ profile.monthly_income > 0

\* every text of the income field that is no number, or a number <= 0, is rejected and
\* nothing is sent; every other text sends its number
ProfileRuleOnTexts ==
    \A monthlyIncome \in IncomeTexts :
       LET income == parseFloat(monthlyIncome)
           outcome == handleProfileSubmit(monthlyIncome)
       IN  IF isNaN(income) \/ income.v <= 0
           THEN outcome = Rejected("Please enter a valid monthly income")
           ELSE /\ outcome.request # Null
                /\ outcome.request.row.monthly_income = income.v

\* C30: the main view is rendered only when the Dashboard is not loading, a profile is
\* loaded whose monthly_income is not zero, and the settings are not open; when it is not
\* loading and not on the main view, IncomeSetup is shown.  A fetchUserData that returns
\* while no positive income is saved leaves IncomeSetup on the screen, as it does after
\* Done.  handleProfileSubmit sends, and the store receives, positive numbers only.
C30_MainViewNeedsIncome ==
    /\ [](/\ Screen = "main" =>
                /\ ~dashboard.loading
                /\ userProfile # Null
                /\ userProfile.monthly_income # 0
                /\ ~dashboard.showIncomeSetup
          /\ (~dashboard.loading /\ Screen # "main") => Screen = "IncomeSetup"
          /\ ProfileRuleOnTexts
          /\ account.profileRequest # Null =>
                account.profileRequest.row.monthly_income > 0)
    /\ [][ /\ (dashboard.fetching /\ ~dashboard'.fetching /\ userProfile' = db_user
                  /\ ~PositiveIncome(db_user)) =>
                 (Screen' = "IncomeSetup")
           /\ db_user' # db_user => (db_user' = Null \/ db_user'.monthly_income > 0)
         ]_vars

\* the profile form has rejected an income and a fetchUserData has returned the users
\* row with the default income 0: the settings are not open, and IncomeSetup is shown
C30_Witness ==
    /\ ~dashboard.loading
    /\ ~dashboard.fetching
    /\ ~dashboard.showIncomeSetup
    /\ userProfile # Null
    /\ userProfile.monthly_income = 0
    /\ db_user = userProfile
    /\ Screen = "IncomeSetup"
    /\ account.error = "Please enter a valid monthly income"

====
